---------------------------- MODULE Spec2Model ----------------------------
(***************************************************************************)
(* A model of the staged subtitle pipeline of av_srt_generation:           *)
(* vad_segment (vad.py), asr_transcribe (asr.py), gate_segments (gate.py), *)
(* build_subtitle_blocks_ja, normalize_subtitle_blocks_ja and write_srt_ja *)
(* (subtitles.py), with the files of one workspace as the state; of        *)
(* parse_srt and render_srt (translate.py); and of init_workspace          *)
(* (workspace.py), with the input paths and the candidate directories as   *)
(* the state.                                                              *)
(*                                                                         *)
(* Conventions.                                                            *)
(*  - A text is a sequence of characters; a character is a one-token       *)
(*    string.  "a_ja", "i_ja" stand for Japanese letters, "x" for a Latin  *)
(*    letter, "ja_comma" "ja_period" "ja_quest" "ja_excl" for the          *)
(*    full-width marks U+3001 U+3002 U+FF1F U+FF01, " " for whitespace,    *)
(*    "nl" for a line feed.                                                *)
(*  - A file is a record [st, data]: st is "absent", "torn" (a write was   *)
(*    interrupted, the bytes do not parse) or "ok".                        *)
(*  - sha256 is modelled as collision free: the digest of a payload is the *)
(*    payload.  What is hashed (the payload) is modelled as the code       *)
(*    builds it.                                                           *)
(*  - Floating point ratios are compared by exact cross multiplication.    *)
(***************************************************************************)
EXTENDS Integers, Sequences, FiniteSets, TLC

VARIABLES
    asr,          \* segments.asr.json
    gated,        \* segments.gated.json
    gatedMeta,    \* segments.gated.meta.json
    blocks,       \* subtitle_blocks_ja.json
    blocksMeta,   \* subtitle_blocks_ja.meta.json
    srt,          \* <stem>.ja.srt
    srtMeta,      \* write_srt_ja.meta.json
    scope,        \* the stage whose runs the behaviour explores (see Init)
    gatedFrom,    \* history: the arguments of the run that wrote segments.gated.json
    hist,         \* history: the last two operations, whether a run was
                  \* interrupted before the write of its sidecar began, and the
                  \* warnings the last run appended to run.log
    video,        \* the input paths: path -> (kind, size_bytes, mtime)
    workDirs,     \* the candidate directories base, base.001, ... and their media.json
    returned,     \* history: the contexts init_workspace returned, in order
    calls,        \* the calls of init_workspace under way: process -> position and locals
    audio,        \* audio.wav
    vad,          \* segments.vad.json
    asrMeta,      \* segments.asr.meta.json
    subtitles,    \* the SrtEntry list handed to render_srt
    rendered,     \* the text render_srt returned
    parsed,       \* what parse_srt made of that text
    given,        \* the argument of the function a behaviour applies (see InitPure)
    result        \* what the function returned: (op, value)

files == <<asr, gated, gatedMeta, blocks, blocksMeta, srt, srtMeta>>

workspace == <<video, workDirs, returned, calls>>

speech == <<audio, vad, asrMeta>>

translation == <<subtitles, rendered, parsed>>

pure == <<given, result>>

vars == <<asr, gated, gatedMeta, blocks, blocksMeta, srt, srtMeta, scope, gatedFrom, hist,
          video, workDirs, returned, calls, audio, vad, asrMeta, subtitles, rendered, parsed,
          given, result>>

---------------------------------------------------------------------------
(* Characters and texts                                                    *)

JapaneseChars == {"a_ja", "i_ja"}

LatinChars == {"x", "0", "1", "2", "3", "4", "5", "6", "7", "8", "9"}

JaPunct == {"ja_comma", "ja_period", "ja_quest", "ja_excl"}

\* subtitles.py: _SPLIT_PUNCT
SPLIT_PUNCT == JaPunct \cup {",", ".", "!", "?"}

SpaceChars == {" ", "nl"}

IsSpace(ch) == ch \in SpaceChars

\* str.isalnum()
IsAlnum(ch) == ch \in JapaneseChars \cup LatinChars

Max(a, b) == IF a >= b THEN a ELSE b

Min(a, b) == IF a <= b THEN a ELSE b

Abs(a) == IF a >= 0 THEN a ELSE 0 - a

RECURSIVE CountIf(_, _)
\* Python: sum(1 for ch in text if P(ch)), by the set of characters satisfying P
CountIf(text, set) ==
    IF text = <<>> THEN 0
    ELSE (IF Head(text) \in set THEN 1 ELSE 0) + CountIf(Tail(text), set)

RECURSIVE LStrip(_)
LStrip(text) ==
    IF text # <<>> /\ IsSpace(Head(text)) THEN LStrip(Tail(text)) ELSE text

RECURSIVE RStrip(_)
\* str.rstrip()
RStrip(text) ==
    IF text # <<>> /\ IsSpace(text[Len(text)])
    THEN RStrip(SubSeq(text, 1, Len(text) - 1))
    ELSE text

\* str.strip()
Strip(text) == RStrip(LStrip(text))

RECURSIVE Concat(_)
\* "".join(texts)
Concat(texts) ==
    IF texts = <<>> THEN <<>> ELSE Head(texts) \o Concat(Tail(texts))

\* Python slicing text[:n] and text[n:] for 0 <= n
Take(text, n) == SubSeq(text, 1, Min(n, Len(text)))

Drop(text, n) == SubSeq(text, Min(n, Len(text)) + 1, Len(text))

\* subtitles.py: count_jp_chars
count_jp_chars(text) == Len(text) - CountIf(text, SpaceChars)

---------------------------------------------------------------------------
(* gate.py                                                                 *)

\* gate.py: GateConfig.  The two ratios are percentages (0.30 is 30).
DefaultGateConfig ==
    [min_text_chars |-> 2,
     max_chars_per_sec |-> 20,
     min_japanese_char_ratio |-> 30,
     max_repeated_char_ratio |-> 60,
     drop_if_contains_only_punct |-> TRUE]

\* gate.py: _strip_punct_and_space, re.sub(r"[\W_]+", "", text): what is left
\* is the word characters other than "_", that is the alphanumeric ones.
_strip_punct_and_space(text) == SelectSeq(text, IsAlnum)

\* gate.py: _japanese_char_ratio as the pair <<jp_count, denom>>
_japanese_char_ratio(text) ==
    <<CountIf(text, JapaneseChars), CountIf(text, JapaneseChars \cup LatinChars)>>

NotSpace(ch) == ~IsSpace(ch)

\* gate.py: _repeated_char_ratio as the pair <<max(counts.values()), len(compact)>>
_repeated_char_ratio(text) ==
    LET compact == SelectSeq(text, NotSpace)
        chars == {compact[i] : i \in 1..Len(compact)}
        count(ch) == CountIf(compact, {ch})
    IN  IF compact = <<>> THEN <<0, 1>>
        ELSE <<CHOOSE n \in {count(ch) : ch \in chars} :
                   \A ch \in chars : count(ch) <= n,
               Len(compact)>>

\* _should_drop with the repeated-char rule taken before the too-short rule
ShouldDropRepeatedFirst(text, duration_ms, language, config) ==
    LET stripped == Strip(text)
        jp == _japanese_char_ratio(text)
        rep == _repeated_char_ratio(text)
        tooFast ==
            IF duration_ms > 0
            THEN Len(stripped) * 1000 > config.max_chars_per_sec * duration_ms
            ELSE Len(stripped) * 1000000 > config.max_chars_per_sec
        lowRatio ==
            IF jp[2] = 0 THEN 0 < config.min_japanese_char_ratio
            ELSE jp[1] * 100 < config.min_japanese_char_ratio * jp[2]
    IN  IF stripped = <<>> THEN "empty"
        ELSE IF config.drop_if_contains_only_punct /\ _strip_punct_and_space(text) = <<>>
        THEN "punct-only"
        ELSE IF rep[1] * 100 > config.max_repeated_char_ratio * rep[2]
        THEN "repeated-char"
        ELSE IF Len(stripped) < config.min_text_chars /\ duration_ms >= 1000
        THEN "too-short"
        ELSE IF tooFast THEN "too-fast"
        ELSE IF language = "ja" /\ lowRatio THEN "low-ja-ratio"
        ELSE ""

\* gate.py: _should_drop.  duration_ms is end_ms - start_ms; the code passes
\* duration_sec = max(duration_ms / 1000.0, 1e-6).  Returns the reason, "" to keep.
_should_drop(text, duration_ms, language, config) ==
    LET stripped == Strip(text)
        jp == _japanese_char_ratio(text)
        rep == _repeated_char_ratio(text)
        tooFast ==
            IF duration_ms > 0
            THEN Len(stripped) * 1000 > config.max_chars_per_sec * duration_ms
            ELSE Len(stripped) * 1000000 > config.max_chars_per_sec
        lowRatio ==
            IF jp[2] = 0 THEN 0 < config.min_japanese_char_ratio
            ELSE jp[1] * 100 < config.min_japanese_char_ratio * jp[2]
    IN  IF stripped = <<>> THEN "empty"
        ELSE IF config.drop_if_contains_only_punct /\ _strip_punct_and_space(text) = <<>>
        THEN "punct-only"
        ELSE IF Len(stripped) < config.min_text_chars /\ duration_ms >= 1000
        THEN "too-short"
        ELSE IF tooFast THEN "too-fast"
        ELSE IF language = "ja" /\ lowRatio THEN "low-ja-ratio"
        ELSE IF rep[1] * 100 > config.max_repeated_char_ratio * rep[2]
        THEN "repeated-char"
        ELSE ""

Digit(d) ==
    CASE d = 0 -> "0" [] d = 1 -> "1" [] d = 2 -> "2" [] d = 3 -> "3" [] d = 4 -> "4"
      [] d = 5 -> "5" [] d = 6 -> "6" [] d = 7 -> "7" [] d = 8 -> "8" [] d = 9 -> "9"

RECURSIVE FormatNat(_)
FormatNat(n) ==
    IF n < 10 THEN <<Digit(n)>> ELSE FormatNat(n \div 10) \o <<Digit(n % 10)>>

\* f"{n}" of an integer
FormatInt(n) == IF n < 0 THEN <<"-">> \o FormatNat(0 - n) ELSE FormatNat(n)

RECURSIVE JoinLines(_)
\* "\n".join(lines)
JoinLines(lines) ==
    IF lines = <<>> THEN <<>>
    ELSE IF Len(lines) = 1 THEN lines[1]
    ELSE lines[1] \o <<"nl">> \o JoinLines(Tail(lines))

\* A JSON null in the place of a text
Null == <<"null">>

\* gate.py: _normalize_text, of a string or None
_normalize_text(value) == IF value = Null THEN <<>> ELSE value

\* gate.py: _asr_fingerprint.  The digest is the payload it is taken of.
_asr_fingerprint(segments) ==
    LET line(item) ==
            FormatInt(item.seg_id) \o <<"|">> \o FormatInt(item.start_ms) \o <<"|">>
              \o FormatInt(item.end_ms) \o <<"|">> \o _normalize_text(item.text)
    IN  <<JoinLines([i \in 1..Len(segments) |-> line(segments[i])]), Len(segments)>>

\* GateKeep with the survivors written last first
GateKeepReversed(segments, language, config) ==
    LET loaded == [i \in 1..Len(segments) |->
                      [segments[i] EXCEPT !.text = _normalize_text(@)]]
        keep(item) ==
            _should_drop(item.text, item.end_ms - item.start_ms, language, config) = ""
        kept == SelectSeq(loaded, keep)
    IN  [i \in 1..Len(kept) |-> kept[Len(kept) + 1 - i]]

\* gate.py: the loop of gate_segments over the ASR segments
GateKeep(segments, language, config) ==
    LET loaded == [i \in 1..Len(segments) |->
                      [segments[i] EXCEPT !.text = _normalize_text(@)]]
        keep(item) ==
            _should_drop(item.text, item.end_ms - item.start_ms, language, config) = ""
    IN  SelectSeq(loaded, keep)

\* gate.py: the drops gate_segments writes to run.log, the first 10 of a run
GateDropLog(segments, language, config) ==
    LET reason(item) ==
            _should_drop(_normalize_text(item.text), item.end_ms - item.start_ms,
                         language, config)
        dropped(item) == reason(item) # ""
        drops == SelectSeq(segments, dropped)
    IN  [i \in 1..Min(Len(drops), 10) |->
            [seg_id |-> drops[i].seg_id, reason |-> reason(drops[i])]]

\* gate.py: the metadata gate_segments writes
GateMetaOf(segments, language, config) ==
    [stage |-> "gate",
     version |-> 1,
     language |-> language,
     config |-> config,
     input |-> [asr_sha256 |-> _asr_fingerprint(segments)[1],
                asr_count |-> _asr_fingerprint(segments)[2]]]

\* dict.get(key) == value, for a value other than None
GetIs(meta, key, value) == key \in DOMAIN meta /\ meta[key] = value

\* gate.py: _meta_matches, of a sidecar that parsed as the object meta
_meta_matches(meta, language, config, asr_sha256, asr_count) ==
    /\ GetIs(meta, "stage", "gate")
    /\ GetIs(meta, "version", 1)
    /\ GetIs(meta, "language", language)
    /\ GetIs(meta, "config", config)
    /\ "input" \in DOMAIN meta
    /\ GetIs(meta.input, "asr_sha256", asr_sha256)
    /\ GetIs(meta.input, "asr_count", asr_count)

---------------------------------------------------------------------------
(* subtitles.py: the block builder                                         *)

\* subtitles.py: Stage6Config (target_chars_per_sec is a whole number of
\* characters per second)
DefaultStage6Config ==
    [merge_gap_ms |-> 250,
     max_block_ms |-> 6000,
     min_block_ms |-> 800,
     max_lines |-> 2,
     chars_per_line |-> 22,
     target_chars_per_sec |-> 12]

\* subtitles.py: Stage6Config.max_chars_per_block
max_chars_per_block(config) == config.max_lines * config.chars_per_line

\* subtitles.py: _stage6_config_payload
_stage6_config_payload(config) ==
    [merge_gap_ms |-> config.merge_gap_ms,
     max_block_ms |-> config.max_block_ms,
     min_block_ms |-> config.min_block_ms,
     max_lines |-> config.max_lines,
     chars_per_line |-> config.chars_per_line,
     target_chars_per_sec |-> config.target_chars_per_sec,
     max_chars_per_block |-> max_chars_per_block(config)]

\* The sort key (start_ms, end_ms) of list.sort in subtitles.py
TimeKeyLeq(a, b) ==
    \/ a.start_ms < b.start_ms
    \/ a.start_ms = b.start_ms /\ a.end_ms <= b.end_ms

RECURSIVE InsertByTime(_, _)
InsertByTime(x, sorted) ==
    IF sorted = <<>> THEN <<x>>
    ELSE IF TimeKeyLeq(sorted[Len(sorted)], x) THEN Append(sorted, x)
    ELSE Append(InsertByTime(x, SubSeq(sorted, 1, Len(sorted) - 1)), sorted[Len(sorted)])

RECURSIVE SortByTime(_)
\* list.sort(key=lambda x: (x.start_ms, x.end_ms)): a stable sort
SortByTime(items) ==
    IF items = <<>> THEN <<>>
    ELSE InsertByTime(items[Len(items)], SortByTime(SubSeq(items, 1, Len(items) - 1)))

\* subtitles.py: Segment
Segment(start_ms, end_ms, text) ==
    [start_ms |-> start_ms, end_ms |-> end_ms, text |-> text]

\* subtitles.py: _load_gated_segments, of a file that holds a list of
\* objects with integer timing fields
_load_gated_segments(data) ==
    SortByTime([i \in 1..Len(data) |->
                   Segment(data[i].start_ms, data[i].end_ms, data[i].text)])

\* subtitles.py: Block
Block(start_ms, end_ms, text, segments) ==
    [start_ms |-> start_ms, end_ms |-> end_ms, text |-> text, segments |-> segments]

\* subtitles.py: _block_duration
_block_duration(block) == Max(block.end_ms - block.start_ms, 0)

\* chars / max(duration_ms / 1000.0, 1e-6) > limit10 / 10, without division
CpsExceeds(chars, duration_ms, limit10) ==
    IF duration_ms > 0
    THEN chars * 10000 > limit10 * duration_ms
    ELSE chars * 10000000 > limit10

\* The whole targets up to 24 for which the double target * 1.2 is the
\* double below the one nearest to 1.2 times the target: 12.0 * 1.2 is
\* 14.399999999999999, and 14.4 characters per second is above it
PaceLimitRoundsDown == {3, 6, 9, 12, 18, 23, 24}

\* subtitles.py: the test of _merge_segments that lets seg extend current;
\* merged_cps <= config.target_chars_per_sec * 1.2 is computed in doubles
MergeAllowed(current, seg, config) ==
    LET gap == Max(seg.start_ms - current.end_ms, 0)
        merged_end == Max(current.end_ms, seg.end_ms)
        merged_chars == count_jp_chars(current.text \o seg.text)
        merged_duration == merged_end - current.start_ms
    IN  /\ gap <= config.merge_gap_ms
        /\ merged_duration <= config.max_block_ms
        /\ merged_chars <= max_chars_per_block(config)
        /\ IF config.target_chars_per_sec \in PaceLimitRoundsDown
           THEN IF merged_duration > 0
                THEN merged_chars * 10000
                       < config.target_chars_per_sec * 12 * merged_duration
                ELSE merged_chars * 10000000 < config.target_chars_per_sec * 12
           ELSE ~CpsExceeds(merged_chars, merged_duration,
                            config.target_chars_per_sec * 12)

RECURSIVE MergeLoop(_, _, _, _, _)
MergeLoop(segments, i, current, done, config) ==
    IF i > Len(segments) THEN Append(done, current)
    ELSE LET seg == segments[i]
         IN  IF MergeAllowed(current, seg, config)
             THEN MergeLoop(segments, i + 1,
                            Block(current.start_ms, Max(current.end_ms, seg.end_ms),
                                  current.text \o seg.text, Append(current.segments, seg)),
                            done, config)
             ELSE MergeLoop(segments, i + 1,
                            Block(seg.start_ms, seg.end_ms, seg.text, <<seg>>),
                            Append(done, current), config)

\* subtitles.py: _merge_segments
_merge_segments(segments, config) ==
    IF segments = <<>> THEN <<>>
    ELSE MergeLoop(segments, 2,
                   Block(segments[1].start_ms, segments[1].end_ms, segments[1].text,
                         <<segments[1]>>),
                   <<>>, config)

\* subtitles.py: _block_chars_per_sec(block) > limit
_block_chars_per_sec_exceeds(block, limit) ==
    CpsExceeds(count_jp_chars(block.text), _block_duration(block), limit * 10)

\* _block_needs_split without the test of the characters per second
NeedsSplitIgnoringPace(block, config) ==
    \/ _block_duration(block) > config.max_block_ms
    \/ count_jp_chars(block.text) > max_chars_per_block(config)

\* subtitles.py: _block_needs_split
_block_needs_split(block, config) ==
    \/ _block_duration(block) > config.max_block_ms
    \/ count_jp_chars(block.text) > max_chars_per_block(config)
    \/ _block_chars_per_sec_exceeds(block, config.target_chars_per_sec)

\* subtitles.py: _ends_with_punct
_ends_with_punct(text) ==
    LET stripped == RStrip(text)
    IN  stripped # <<>> /\ stripped[Len(stripped)] \in SPLIT_PUNCT

\* "".join(seg.text for seg in segments)
SegmentsText(segments) == Concat([i \in 1..Len(segments) |-> segments[i].text])

\* A block over a run of segments, as _split_on_segment_boundary builds it
BlockOfSegments(segments) ==
    Block(segments[1].start_ms, segments[Len(segments)].end_ms,
          SegmentsText(segments), segments)

\* BoundaryScore2 without the bonus of a left half that ends in a mark
BoundaryScoreNoBonus(block, idx) ==
    LET total_chars == count_jp_chars(SegmentsText(block.segments))
        left_text == SegmentsText(SubSeq(block.segments, 1, idx))
        left_chars == count_jp_chars(left_text)
        right_chars == Max(total_chars - left_chars, 0)
    IN  2 * Abs(left_chars - right_chars)

\* subtitles.py: the loop of _split_on_segment_boundary: twice the score of
\* the boundary before segment idx + 1 (idx segments on the left)
BoundaryScore2(block, idx) ==
    LET total_chars == count_jp_chars(SegmentsText(block.segments))
        left_text == SegmentsText(SubSeq(block.segments, 1, idx))
        left_chars == count_jp_chars(left_text)
        right_chars == Max(total_chars - left_chars, 0)
    IN  2 * Abs(left_chars - right_chars) - (IF _ends_with_punct(left_text) THEN 1 ELSE 0)

\* The boundary the loop settles on: the first of the least score
BestBoundary(block) ==
    CHOOSE idx \in 1..(Len(block.segments) - 1) :
        \A other \in 1..(Len(block.segments) - 1) :
            /\ BoundaryScore2(block, idx) <= BoundaryScore2(block, other)
            /\ other < idx => BoundaryScore2(block, other) > BoundaryScore2(block, idx)

\* _split_on_segment_boundary whose right half starts one segment early,
\* at block.segments[best_idx - 1:]
SplitOnSegmentBoundaryOffByOne(block) ==
    IF Len(block.segments) < 2 THEN <<>>
    ELSE LET best_idx == BestBoundary(block)
         IN  <<BlockOfSegments(SubSeq(block.segments, 1, best_idx)),
               BlockOfSegments(SubSeq(block.segments, best_idx, Len(block.segments)))>>

\* subtitles.py: _split_on_segment_boundary; <<>> is None
_split_on_segment_boundary(block) ==
    IF Len(block.segments) < 2 THEN <<>>
    ELSE LET best_idx == BestBoundary(block)
         IN  <<BlockOfSegments(SubSeq(block.segments, 1, best_idx)),
               BlockOfSegments(SubSeq(block.segments, best_idx + 1, Len(block.segments)))>>

\* choose_split_point that takes the mark after the midpoint when two marks
\* are as far from it
ChooseSplitPointPreferringLater(text) ==
    IF text = <<>> THEN 0
    ELSE LET midpoint == Len(text) \div 2
             candidates == {idx \in 0..(Len(text) - 2) : text[idx + 1] \in SPLIT_PUNCT}
             key1(idx) == Abs(idx - midpoint)
             key2(idx) == IF idx <= midpoint THEN 1 ELSE 0
             best_idx ==
                 CHOOSE idx \in candidates : \A other \in candidates :
                     \/ key1(idx) < key1(other)
                     \/ key1(idx) = key1(other) /\ key2(idx) <= key2(other)
         IN  IF candidates = {} THEN midpoint
             ELSE IF best_idx + 1 <= 0 \/ best_idx + 1 >= Len(text) THEN midpoint
             ELSE best_idx + 1

\* subtitles.py: choose_split_point.  The result counts the characters of
\* the left part.
choose_split_point(text) ==
    IF text = <<>> THEN 0
    ELSE LET midpoint == Len(text) \div 2
             candidates == {idx \in 0..(Len(text) - 2) : text[idx + 1] \in SPLIT_PUNCT}
             key1(idx) == Abs(idx - midpoint)
             key2(idx) == IF idx <= midpoint THEN 0 ELSE 1
             best_idx ==
                 CHOOSE idx \in candidates : \A other \in candidates :
                     \/ key1(idx) < key1(other)
                     \/ key1(idx) = key1(other) /\ key2(idx) <= key2(other)
         IN  IF candidates = {} THEN midpoint
             ELSE IF best_idx + 1 <= 0 \/ best_idx + 1 >= Len(text) THEN midpoint
             ELSE best_idx + 1

\* int(x) of the fraction num / den, den > 0: truncation toward zero
TruncDiv(num, den) == IF num >= 0 THEN num \div den ELSE 0 - ((0 - num) \div den)

\* start_ms + duration * (left_chars / total_chars) in IEEE doubles, where it
\* is below the exact value by less than 1 and the exact value is a whole
\* number: 90 * (7 / 10) is 62.99999999999999.  Among the arguments the
\* behaviours reach (total_chars below 10 with any duration up to 20000, and
\* total_chars 10 in a block of 90 ms) this is the only one.
SplitProductRoundsDown(start_ms, duration, left_chars, total_chars) ==
    <<start_ms, duration, left_chars, total_chars>> = <<0, 90, 7, 10>>

\* The split time of _split_inside_text and _split_block_for_srt:
\* int(start_ms + duration * ratio) clamped into [start_ms + 1, end_ms - 1]
SplitTime(start_ms, end_ms, left_text, text) ==
    LET total_chars == count_jp_chars(text)
        left_chars == count_jp_chars(left_text)
        duration == Max(end_ms - start_ms, 0)
        raw == IF total_chars = 0
               THEN TruncDiv(2 * start_ms + duration, 2)
               ELSE IF SplitProductRoundsDown(start_ms, duration, left_chars, total_chars)
               THEN TruncDiv(start_ms * total_chars + duration * left_chars, total_chars) - 1
               ELSE TruncDiv(start_ms * total_chars + duration * left_chars, total_chars)
    IN  Max(start_ms + 1, Min(end_ms - 1, raw))

\* The offset both in-text splitters cut the text at
SplitIndex(text) ==
    LET split_idx == choose_split_point(text)
    IN  IF split_idx <= 0 \/ split_idx >= Len(text) THEN Len(text) \div 2 ELSE split_idx

\* _split_inside_text with the right half starting where the block starts,
\* not at split_ms: the two halves overlap
OverlappingTextSplit(block) ==
    IF Len(block.text) <= 1 THEN <<>>
    ELSE LET split_idx == SplitIndex(block.text)
             left_text == Take(block.text, split_idx)
             right_text == Drop(block.text, split_idx)
             split_ms == SplitTime(block.start_ms, block.end_ms, left_text, block.text)
         IN  IF split_ms <= block.start_ms \/ split_ms >= block.end_ms THEN <<>>
             ELSE <<Block(block.start_ms, split_ms, left_text,
                          <<Segment(block.start_ms, split_ms, left_text)>>),
                    Block(block.start_ms, block.end_ms, right_text,
                          <<Segment(block.start_ms, block.end_ms, right_text)>>)>>

\* _split_inside_text with a right half that starts one character late
SplitInsideTextSkippingOne(block) ==
    IF Len(block.text) <= 1 THEN <<>>
    ELSE LET split_idx == SplitIndex(block.text)
             left_text == Take(block.text, split_idx)
             right_text == Drop(block.text, split_idx + 1)
             split_ms == SplitTime(block.start_ms, block.end_ms, left_text, block.text)
         IN  IF split_ms <= block.start_ms \/ split_ms >= block.end_ms THEN <<>>
             ELSE <<Block(block.start_ms, split_ms, left_text,
                          <<Segment(block.start_ms, split_ms, left_text)>>),
                    Block(split_ms, block.end_ms, right_text,
                          <<Segment(split_ms, block.end_ms, right_text)>>)>>

\* subtitles.py: _split_inside_text; <<>> is None
_split_inside_text(block) ==
    IF Len(block.text) <= 1 THEN <<>>
    ELSE LET split_idx == SplitIndex(block.text)
             left_text == Take(block.text, split_idx)
             right_text == Drop(block.text, split_idx)
             split_ms == SplitTime(block.start_ms, block.end_ms, left_text, block.text)
         IN  IF split_ms <= block.start_ms \/ split_ms >= block.end_ms THEN <<>>
             ELSE <<Block(block.start_ms, split_ms, left_text,
                          <<Segment(block.start_ms, split_ms, left_text)>>),
                    Block(split_ms, block.end_ms, right_text,
                          <<Segment(split_ms, block.end_ms, right_text)>>)>>

\* subtitles.py: _split_block
_split_block(block) ==
    IF _split_on_segment_boundary(block) # <<>>
    THEN _split_on_segment_boundary(block)
    ELSE _split_inside_text(block)

RECURSIVE _enforce_block_constraints(_, _)
\* subtitles.py: _enforce_block_constraints
_enforce_block_constraints(block, config) ==
    IF ~_block_needs_split(block, config) THEN <<block>>
    ELSE LET split_pair == _split_block(block)
         IN  IF split_pair = <<>> THEN <<block>>
             ELSE _enforce_block_constraints(split_pair[1], config)
                    \o _enforce_block_constraints(split_pair[2], config)

RECURSIVE EnforceAll(_, _)
\* subtitles.py: build_subtitle_blocks_ja, the loop over the merged blocks
EnforceAll(merged, config) ==
    IF merged = <<>> THEN <<>>
    ELSE _enforce_block_constraints(Head(merged), config) \o EnforceAll(Tail(merged), config)

\* subtitles.py: build_subtitle_blocks_ja, the blocks in the order written
FinalBlocks(data, config) ==
    SortByTime(EnforceAll(_merge_segments(_load_gated_segments(data), config), config))

\* subtitles.py: build_subtitle_blocks_ja, the payload written to
\* subtitle_blocks_ja.json
BlocksPayload(data, config) ==
    LET final_blocks == FinalBlocks(data, config)
    IN  [idx \in 1..Len(final_blocks) |->
            [block_id |-> idx,
             start_ms |-> final_blocks[idx].start_ms,
             end_ms |-> final_blocks[idx].end_ms,
             text |-> final_blocks[idx].text]]

---------------------------------------------------------------------------
(* subtitles.py: normalization, wrapping and rendering                     *)

\* TranslatePunct with "," mapped to ".", which it maps to the full-width mark
TranslatePunctChained(ch) ==
    CASE ch = "," -> "."
      [] ch = "." -> "ja_period"
      [] ch = "?" -> "ja_quest"
      [] ch = "!" -> "ja_excl"
      [] OTHER -> ch

\* str.translate of normalize_japanese_text
TranslatePunct(ch) ==
    CASE ch = "," -> "ja_comma"
      [] ch = "." -> "ja_period"
      [] ch = "?" -> "ja_quest"
      [] ch = "!" -> "ja_excl"
      [] OTHER -> ch

RECURSIVE CollapseSpaces(_)
\* re.sub(r"\s+", " ", text)
CollapseSpaces(text) ==
    IF text = <<>> THEN <<>>
    ELSE IF IsSpace(Head(text)) THEN <<" ">> \o CollapseSpaces(LStrip(text))
    ELSE <<Head(text)>> \o CollapseSpaces(Tail(text))

RECURSIVE TightenPunct(_)
\* re.sub(r"\s*([、。！？])\s*", r"\1", text): leftmost, greedy matches
TightenPunct(text) ==
    IF text = <<>> THEN <<>>
    ELSE LET rest == LStrip(text)
         IN  IF rest # <<>> /\ Head(rest) \in JaPunct
             THEN <<Head(rest)>> \o TightenPunct(LStrip(Tail(rest)))
             ELSE <<Head(text)>> \o TightenPunct(Tail(text))

\* subtitles.py: normalize_japanese_text
normalize_japanese_text(text) ==
    Strip(TightenPunct(CollapseSpaces([i \in 1..Len(text) |-> TranslatePunct(text[i])])))

\* subtitles.py: normalize_subtitle_blocks_ja, the list written back; an item
\* without "text" gets the text "" (item.get("text", ""))
NormalizedPayload(data) ==
    [i \in 1..Len(data) |->
        [key \in DOMAIN data[i] \cup {"text"} |->
            IF key # "text" THEN data[i][key]
            ELSE IF "text" \in DOMAIN data[i] THEN normalize_japanese_text(data[i].text)
            ELSE <<>>]]

RECURSIVE _wrap_remaining(_, _)
\* subtitles.py: _wrap_remaining
_wrap_remaining(text, chars_per_line) ==
    IF text = <<>> THEN <<>>
    ELSE IF Len(text) <= chars_per_line THEN <<text>>
    ELSE <<Take(text, chars_per_line)>>
           \o _wrap_remaining(Drop(text, chars_per_line), chars_per_line)

\* subtitles.py: wrap_japanese, where one line is cut off a text longer
\* than chars_per_line: the number of characters the line takes
WrapSplitIdx(remaining, chars_per_line) ==
    LET window_start == Max(chars_per_line - 4, 1)
        marks == {idx \in window_start..(chars_per_line - 1) :
                     remaining[idx + 1] \in SPLIT_PUNCT}
    IN  IF marks = {} THEN chars_per_line
        ELSE (CHOOSE idx \in marks : \A other \in marks : other <= idx) + 1

RECURSIVE WrapLoop(_, _, _, _)
\* subtitles.py: wrap_japanese, the loop and what follows it
WrapLoop(remaining, lines, chars_per_line, max_lines) ==
    IF remaining = <<>> THEN lines
    ELSE IF Len(lines) >= max_lines
    THEN lines \o _wrap_remaining(remaining, chars_per_line)
    ELSE IF Len(remaining) <= chars_per_line THEN Append(lines, remaining)
    ELSE LET split_idx == WrapSplitIdx(remaining, chars_per_line)
         IN  WrapLoop(Drop(remaining, split_idx), Append(lines, Take(remaining, split_idx)),
                      chars_per_line, max_lines)

\* subtitles.py: wrap_japanese
wrap_japanese(text, chars_per_line, max_lines) ==
    WrapLoop(text, <<>>, chars_per_line, max_lines)

\* subtitles.py: _force_wrapped_lines
_force_wrapped_lines(text, chars_per_line, max_lines) ==
    LET lines == wrap_japanese(text, chars_per_line, max_lines)
    IN  IF Len(lines) <= max_lines THEN lines
        ELSE SubSeq(lines, 1, max_lines - 1)
               \o <<Concat(SubSeq(lines, max_lines, Len(lines)))>>

\* subtitles.py: _split_block_for_srt; one block back means no split
_split_block_for_srt(block) ==
    IF Len(block.text) <= 1 THEN <<block>>
    ELSE IF block.end_ms - block.start_ms <= 1 THEN <<block>>
    ELSE LET split_idx == SplitIndex(block.text)
             left_text == Take(block.text, split_idx)
             right_text == Drop(block.text, split_idx)
             split_ms == SplitTime(block.start_ms, block.end_ms, left_text, block.text)
         IN  IF split_ms <= block.start_ms \/ split_ms >= block.end_ms THEN <<block>>
             ELSE <<[block_id |-> 0, start_ms |-> block.start_ms, end_ms |-> split_ms,
                     text |-> left_text],
                    [block_id |-> 0, start_ms |-> split_ms, end_ms |-> block.end_ms,
                     text |-> right_text]>>

RECURSIVE PrepareLoop(_, _, _, _)
\* subtitles.py: _prepare_srt_blocks, the work queue.  block_id 0 is a block
\* without a block_id; has_lines tells a forced entry, which carries its lines.
PrepareLoop(queue, prepared, chars_per_line, max_lines) ==
    IF queue = <<>> THEN prepared
    ELSE LET block == Head(queue)
             lines == wrap_japanese(block.text, chars_per_line, max_lines)
             split_blocks == _split_block_for_srt(block)
         IN  IF Len(lines) <= max_lines
             THEN PrepareLoop(Tail(queue),
                              Append(prepared,
                                     [start_ms |-> block.start_ms, end_ms |-> block.end_ms,
                                      text |-> block.text, has_lines |-> FALSE,
                                      lines |-> <<>>]),
                              chars_per_line, max_lines)
             ELSE IF Len(split_blocks) = 1
             THEN PrepareLoop(Tail(queue),
                              Append(prepared,
                                     [start_ms |-> block.start_ms, end_ms |-> block.end_ms,
                                      text |-> block.text, has_lines |-> TRUE,
                                      lines |-> _force_wrapped_lines(block.text,
                                                                     chars_per_line,
                                                                     max_lines)]),
                              chars_per_line, max_lines)
             ELSE PrepareLoop(split_blocks \o Tail(queue), prepared,
                              chars_per_line, max_lines)

RECURSIVE PrepareLog(_, _, _)
\* subtitles.py: _prepare_srt_blocks, the warnings its work queue appends to
\* run.log, in order
PrepareLog(queue, chars_per_line, max_lines) ==
    IF queue = <<>> THEN <<>>
    ELSE LET block == Head(queue)
             lines == wrap_japanese(block.text, chars_per_line, max_lines)
             split_blocks == _split_block_for_srt(block)
         IN  IF Len(lines) <= max_lines
             THEN PrepareLog(Tail(queue), chars_per_line, max_lines)
             ELSE IF Len(split_blocks) = 1
             THEN <<[warn |-> "unsplittable", block_id |-> block.block_id,
                     duration_ms |-> block.end_ms - block.start_ms]>>
                    \o PrepareLog(Tail(queue), chars_per_line, max_lines)
             ELSE <<[warn |-> "split", block_id |-> block.block_id, duration_ms |-> 0]>>
                    \o PrepareLog(split_blocks \o Tail(queue), chars_per_line, max_lines)

\* subtitles.py: _prepare_srt_blocks
_prepare_srt_blocks(data, chars_per_line, max_lines) ==
    PrepareLoop(data, <<>>, chars_per_line, max_lines)

Pad2(n) == IF n < 10 THEN <<"0">> \o FormatNat(n) ELSE FormatNat(n)

Pad3(n) == IF n < 10 THEN <<"0", "0">> \o FormatNat(n)
           ELSE IF n < 100 THEN <<"0">> \o FormatNat(n) ELSE FormatNat(n)

\* subtitles.py: format_timestamp
format_timestamp(ms) ==
    LET clamped == IF ms < 0 THEN 0 ELSE ms
        millis == clamped % 1000
        seconds == (clamped \div 1000) % 60
        minutes == (clamped \div 60000) % 60
        hours == clamped \div 3600000
    IN  Pad2(hours) \o <<":">> \o Pad2(minutes) \o <<":">> \o Pad2(seconds)
          \o <<",">> \o Pad3(millis)

\* subtitles.py: _render_srt, the lines of one entry
EntryLines(idx, block, chars_per_line, max_lines) ==
    <<FormatInt(idx),
      format_timestamp(block.start_ms) \o <<" ", "-", "-", ">", " ">>
        \o format_timestamp(block.end_ms)>>
      \o (IF block.has_lines THEN block.lines
          ELSE wrap_japanese(block.text, chars_per_line, max_lines))
      \o << <<>> >>

\* subtitles.py: _render_srt: the text of the file, a sequence of characters
_render_srt(prepared, chars_per_line, max_lines) ==
    RStrip(JoinLines(Concat([idx \in 1..Len(prepared) |->
                               EntryLines(idx, prepared[idx], chars_per_line, max_lines)])))
      \o <<"nl">>

\* subtitles.py: _prepare_srt_blocks reads block.get("text", "") and
\* block.get("block_id", "?"): a block without text has the text "", a block
\* without block_id is block 0
BlocksRead(data) ==
    [i \in 1..Len(data) |->
        [key \in DOMAIN data[i] \cup {"text", "block_id"} |->
            IF key \in DOMAIN data[i] THEN data[i][key]
            ELSE IF key = "text" THEN <<>> ELSE 0]]

\* subtitles.py: _prepare_srt_blocks reads block["start_ms"] and
\* block["end_ms"] of every block: KeyError where one is not there
BlocksHaveTimes(data) ==
    \A i \in 1..Len(data) : {"start_ms", "end_ms"} \subseteq DOMAIN data[i]

\* subtitles.py: write_srt_ja, the text written for the blocks in data
SrtText(data, config) ==
    _render_srt(_prepare_srt_blocks(BlocksRead(data), config.chars_per_line,
                                    config.max_lines),
                config.chars_per_line, config.max_lines)

---------------------------------------------------------------------------
(* Files, digests and metadata objects                                     *)

AbsentFile == [st |-> "absent", data |-> <<>>]

\* What an interrupted write leaves: the file exists, its bytes do not parse
TornFile == [st |-> "torn", data |-> <<>>]

\* json_io.py: write_json completed
OkFile(data) == [st |-> "ok", data |-> data]

\* Path.exists()
Exists(file) == file.st # "absent"

\* json_io.py: read_json succeeds
Parses(file) == file.st = "ok"

\* subtitles.py: _sha256_path: the digest of a file is the file's content
_sha256_path(file) == file

\* dict.update
Update(meta, more) ==
    [key \in DOMAIN meta \cup DOMAIN more |->
        IF key \in DOMAIN more THEN more[key] ELSE meta[key]]

\* str(output_path) of write_srt_ja
OutputPath == "video.ja.srt"

---------------------------------------------------------------------------
(* The inputs the model runs the pipeline on                               *)

Seg(seg_id, start_ms, end_ms, text) ==
    [seg_id |-> seg_id, start_ms |-> start_ms, end_ms |-> end_ms, text |-> text]

\* The ASR artifacts the speech-to-text stage may leave in the workspace.
\* AsrC and AsrD differ in their segments and have one fingerprint payload.
AsrA ==
    <<Seg(0, 0, 1000, <<"a_ja", "i_ja", ",", " ", "a_ja">>),
      Seg(1, 1100, 2200, <<"i_ja", "i_ja", "i_ja">>)>>

AsrB ==
    <<Seg(0, 0, 1000, <<"a_ja", "i_ja", ",", " ", "a_ja">>),
      Seg(1, 1100, 2200, <<"a_ja", "i_ja">>)>>

AsrC ==
    <<Seg(0, 0, 1000, <<"a_ja", "a_ja", "nl", "1", "|", "1", "0", "0", "0", "|",
                        "2", "0", "0", "0", "|", "i_ja", "i_ja">>),
      Seg(2, 2000, 3000, <<"a_ja", "i_ja">>)>>

AsrD ==
    <<Seg(0, 0, 1000, <<"a_ja", "a_ja">>),
      Seg(1, 1000, 2000, <<"i_ja", "i_ja", "nl", "2", "|", "2", "0", "0", "0", "|",
                           "3", "0", "0", "0", "|", "a_ja", "i_ja">>)>>

AsrInputs == {AsrA, AsrB, AsrC, AsrD}

\* GateConfig(min_text_chars=1, max_chars_per_sec=100.0) of tests/test_gate.py,
\* with the repeated-character rule switched off
LenientGateConfig ==
    [DefaultGateConfig EXCEPT !.min_text_chars = 1, !.max_chars_per_sec = 100,
                              !.max_repeated_char_ratio = 100]

\* The (language, config) pairs gate_segments is called with
GateParams == {<<"ja", DefaultGateConfig>>, <<"en", LenientGateConfig>>}

\* A configuration under which the short texts of the model are split and wrapped
TightStage6Config ==
    [DefaultStage6Config EXCEPT !.merge_gap_ms = 150, !.chars_per_line = 2,
                                !.target_chars_per_sec = 3]

Stage6Configs == {DefaultStage6Config, TightStage6Config}

\* The config argument of write_srt_ja: <<>> is None
ExplicitConfigs == {<<>>} \cup {<<config>> : config \in Stage6Configs}

\* What segments.gated.json holds when it is written by hand, as the tests do
GatedInputs ==
    {GateKeep(AsrA, "en", LenientGateConfig), GateKeep(AsrB, "en", LenientGateConfig)}

---------------------------------------------------------------------------
(* The stages as operations on the files of the workspace                  *)

\* One entry of hist.  lang and conf hold the arguments of the call (conf is
\* a sequence: <<>> for an argument that was not given); out is how the call
\* ended: "hit" (cache hit), "miss" (recomputed and committed), "missing"
\* (FileNotFoundError), "invalid" (the upstream file did not load),
\* "torn_artifact", "no_sidecar", "torn_sidecar" (interrupted), "edit" (not
\* a stage: an upstream file changed).
Entry(op, lang, conf, out) == [op |-> op, lang |-> lang, conf |-> conf, out |-> out]

NoEntry == Entry("none", "", <<>>, "")

Completed == {"hit", "miss"}

\* Where an interrupted recomputation stops: inside the write of the
\* artifact, between the two writes, inside the write of the sidecar
CrashPoints == {"torn_artifact", "no_sidecar", "torn_sidecar"}

\* What hist keeps of the operation before the last: a run that completed,
\* as "done", an edit, or a call of init_workspace; NoEntry for anything else
Summary(entry) ==
    IF entry.out \in Completed THEN [entry EXCEPT !.out = "done"]
    ELSE IF entry.out = "edit" \/ entry.op = "init_workspace" THEN entry
    ELSE NoEntry

\* The interruptions after which the artifact is written, or partly
\* written, and the write of the sidecar has not begun
BeforeSidecar == {"torn_artifact", "no_sidecar"}

Record(entry) ==
    [prev |-> Summary(hist.last),
     last |-> entry,
     crashed |-> hist.crashed \/ entry.out \in BeforeSidecar,
     log |-> <<>>]

\* The artifact and the sidecar after a recomputation that runs to the end
\* (point = "done") or stops at point
ArtifactAfter(point, old, new) ==
    IF point = "torn_artifact" THEN TornFile ELSE OkFile(new)

SidecarAfter(point, old, new) ==
    CASE point = "done" -> OkFile(new)
      [] point = "torn_sidecar" -> TornFile
      [] OTHER -> old

\* How a recomputation that runs to the end or stops at point is recorded
Outcome(point) == IF point = "done" THEN "miss" ELSE point

\* gatedFrom when no run of the gate wrote segments.gated.json
NoSource == [segments |-> <<>>, language |-> "", config |-> <<>>]

\* gate.py: gate_segments, lines 182-189: the cache test
GateCacheHit(language, config) ==
    /\ Exists(gated) /\ Exists(gatedMeta)
    /\ Parses(gatedMeta)
    /\ _meta_matches(gatedMeta.data, language, config,
                     _asr_fingerprint(asr.data)[1], _asr_fingerprint(asr.data)[2])

\* gate.py: gate_segments, run to the end (point = "done") or interrupted
GateRun(language, config, point) ==
    IF ~Exists(asr)
    THEN /\ point = "done"
         /\ hist' = Record(Entry("gate", language, <<config>>, "missing"))
         /\ UNCHANGED <<files, scope, workspace, speech, translation, gatedFrom, pure>>
    ELSE IF GateCacheHit(language, config)
    THEN /\ point = "done"
         /\ hist' = Record(Entry("gate", language, <<config>>, "hit"))
         /\ UNCHANGED <<files, scope, workspace, speech, translation, gatedFrom, pure>>
    ELSE /\ gated' = ArtifactAfter(point, gated, GateKeep(asr.data, language, config))
         /\ gatedMeta' = SidecarAfter(point, gatedMeta,
                                      GateMetaOf(asr.data, language, config))
         /\ gatedFrom' = [segments |-> asr.data, language |-> language, config |-> config]
         /\ hist' = [Record(Entry("gate", language, <<config>>, Outcome(point)))
                       EXCEPT !.log = GateDropLog(asr.data, language, config)]
         /\ UNCHANGED <<asr, blocks, blocksMeta, srt, srtMeta, scope, workspace, speech, translation, pure>>

gate_segments(language, config) == GateRun(language, config, "done")

gate_segments_interrupted(language, config, point) == GateRun(language, config, point)

\* subtitles.py: _input_fingerprint
_input_fingerprint ==
    IF Exists(gatedMeta) THEN _sha256_path(gatedMeta) ELSE _sha256_path(gated)

\* subtitles.py: build_subtitle_blocks_ja, lines 371-385: the cache test
BuildCacheHit(config) ==
    /\ Exists(blocks) /\ Exists(blocksMeta)
    /\ Parses(blocksMeta)
    /\ GetIs(blocksMeta.data, "stage", "stage6")
    /\ GetIs(blocksMeta.data, "version", 1)
    /\ GetIs(blocksMeta.data, "input_fingerprint", _input_fingerprint)
    /\ GetIs(blocksMeta.data, "stage6_config", _stage6_config_payload(config))
    /\ GetIs(blocksMeta.data, "blocks_sha256", _sha256_path(blocks))

\* BuildMetaOf with blocks_sha256 taken of the blocks file as it was before
\* the write, not of the file written
StaleBuildMetaOf(config, written) ==
    [stage |-> "stage6",
     version |-> 1,
     input_fingerprint |-> _input_fingerprint,
     stage6_config |-> _stage6_config_payload(config),
     blocks_sha256 |-> _sha256_path(blocks)]

\* subtitles.py: build_subtitle_blocks_ja, the metadata written once the
\* file written is the blocks file
BuildMetaOf(config, written) ==
    [stage |-> "stage6",
     version |-> 1,
     input_fingerprint |-> _input_fingerprint,
     stage6_config |-> _stage6_config_payload(config),
     blocks_sha256 |-> _sha256_path(written)]

\* subtitles.py: _load_gated_segments returns: the file parses and every
\* item carries start_ms, end_ms and text
GatedLoads ==
    /\ Parses(gated)
    /\ \A i \in 1..Len(gated.data) :
           {"start_ms", "end_ms", "text"} \subseteq DOMAIN gated.data[i]

\* subtitles.py: build_subtitle_blocks_ja
BuildRun(config, point) ==
    IF ~Exists(gated)
    THEN /\ point = "done"
         /\ hist' = Record(Entry("build", "", <<config>>, "missing"))
         /\ UNCHANGED <<files, scope, workspace, speech, translation, gatedFrom, pure>>
    ELSE IF BuildCacheHit(config)
    THEN /\ point = "done"
         /\ hist' = Record(Entry("build", "", <<config>>, "hit"))
         /\ UNCHANGED <<files, scope, workspace, speech, translation, gatedFrom, pure>>
    ELSE IF ~GatedLoads
    THEN /\ point = "done"
         /\ hist' = Record(Entry("build", "", <<config>>, "invalid"))
         /\ UNCHANGED <<files, scope, workspace, speech, translation, gatedFrom, pure>>
    ELSE /\ blocks' = ArtifactAfter(point, blocks, BlocksPayload(gated.data, config))
         /\ blocksMeta' = SidecarAfter(point, blocksMeta,
                                       BuildMetaOf(config,
                                                   OkFile(BlocksPayload(gated.data, config))))
         /\ hist' = Record(Entry("build", "", <<config>>, Outcome(point)))
         /\ UNCHANGED <<asr, gated, gatedMeta, srt, srtMeta, scope, workspace, speech, translation, gatedFrom, pure>>

build_subtitle_blocks_ja(config) == BuildRun(config, "done")

build_subtitle_blocks_ja_interrupted(config, point) == BuildRun(config, point)

\* subtitles.py: normalize_subtitle_blocks_ja, lines 427-439: the cache test
NormalizeCacheHit ==
    /\ Exists(blocksMeta)
    /\ Parses(blocksMeta)
    /\ GetIs(blocksMeta.data, "normalized", TRUE)
    /\ GetIs(blocksMeta.data, "normalization_version", 1)
    /\ GetIs(blocksMeta.data, "normalized_blocks_sha256", _sha256_path(blocks))

\* subtitles.py: normalize_subtitle_blocks_ja, the metadata written once the
\* file written is the blocks file
NormalizeMetaOf(written) ==
    Update(IF Parses(blocksMeta) THEN blocksMeta.data ELSE <<>>,
           [normalized |-> TRUE,
            normalization_version |-> 1,
            normalized_blocks_sha256 |-> _sha256_path(written)])

\* subtitles.py: normalize_subtitle_blocks_ja
NormalizeRun(point) ==
    IF ~Exists(blocks)
    THEN /\ point = "done"
         /\ hist' = Record(Entry("normalize", "", <<>>, "missing"))
         /\ UNCHANGED <<files, scope, workspace, speech, translation, gatedFrom, pure>>
    ELSE IF NormalizeCacheHit
    THEN /\ point = "done"
         /\ hist' = Record(Entry("normalize", "", <<>>, "hit"))
         /\ UNCHANGED <<files, scope, workspace, speech, translation, gatedFrom, pure>>
    ELSE IF ~Parses(blocks)
    THEN /\ point = "done"
         /\ hist' = Record(Entry("normalize", "", <<>>, "invalid"))
         /\ UNCHANGED <<files, scope, workspace, speech, translation, gatedFrom, pure>>
    ELSE /\ blocks' = ArtifactAfter(point, blocks, NormalizedPayload(blocks.data))
         /\ blocksMeta' = SidecarAfter(point, blocksMeta,
                                       NormalizeMetaOf(OkFile(NormalizedPayload(blocks.data))))
         /\ hist' = Record(Entry("normalize", "", <<>>, Outcome(point)))
         /\ UNCHANGED <<asr, gated, gatedMeta, srt, srtMeta, scope, workspace, speech, translation, gatedFrom, pure>>

normalize_subtitle_blocks_ja == NormalizeRun("done")

normalize_subtitle_blocks_ja_interrupted(point) == NormalizeRun(point)

\* subtitles.py: _coerce_stage6_config of the stage6_config object of a
\* sidecar, max_chars_per_block popped
ConfigOfPayload(payload) ==
    [key \in DOMAIN payload \ {"max_chars_per_block"} |-> payload[key]]

\* _resolve_stage6_config that does not read the sidecar of the block file
ResolveIgnoringSidecar(explicit) ==
    IF explicit # <<>> THEN explicit[1] ELSE DefaultStage6Config

\* subtitles.py: _resolve_stage6_config
_resolve_stage6_config(explicit) ==
    IF explicit # <<>> THEN explicit[1]
    ELSE IF /\ Exists(blocksMeta)
            /\ Parses(blocksMeta)
            /\ "stage6_config" \in DOMAIN blocksMeta.data
    THEN ConfigOfPayload(blocksMeta.data.stage6_config)
    ELSE DefaultStage6Config

\* The cache test of write_srt_ja without its comparison of wrap_config
WriteCacheHitAnyConfig(explicit) ==
    /\ Exists(srtMeta) /\ Exists(srt)
    /\ Parses(srtMeta)
    /\ GetIs(srtMeta.data, "stage", "stage8")
    /\ GetIs(srtMeta.data, "version", 1)
    /\ GetIs(srtMeta.data, "normalized_blocks_sha256", _sha256_path(blocks))
    /\ GetIs(srtMeta.data, "output_path", OutputPath)

\* subtitles.py: write_srt_ja, lines 591-605: the cache test
WriteCacheHit(explicit) ==
    /\ Exists(srtMeta) /\ Exists(srt)
    /\ Parses(srtMeta)
    /\ GetIs(srtMeta.data, "stage", "stage8")
    /\ GetIs(srtMeta.data, "version", 1)
    /\ GetIs(srtMeta.data, "normalized_blocks_sha256", _sha256_path(blocks))
    /\ GetIs(srtMeta.data, "wrap_config",
             _stage6_config_payload(_resolve_stage6_config(explicit)))
    /\ GetIs(srtMeta.data, "output_path", OutputPath)

\* subtitles.py: write_srt_ja, the metadata written
WriteMetaOf(explicit) ==
    [stage |-> "stage8",
     version |-> 1,
     normalized_blocks_sha256 |-> _sha256_path(blocks),
     wrap_config |-> _stage6_config_payload(_resolve_stage6_config(explicit)),
     output_path |-> OutputPath]

\* subtitles.py: write_srt_ja
WriteRun(explicit, point) ==
    IF ~Exists(blocks)
    THEN /\ point = "done"
         /\ hist' = Record(Entry("write", "", explicit, "missing"))
         /\ UNCHANGED <<files, scope, workspace, speech, translation, gatedFrom, pure>>
    ELSE IF WriteCacheHit(explicit)
    THEN /\ point = "done"
         /\ hist' = Record(Entry("write", "", explicit, "hit"))
         /\ UNCHANGED <<files, scope, workspace, speech, translation, gatedFrom, pure>>
    ELSE IF ~Parses(blocks) \/ ~BlocksHaveTimes(blocks.data)
    THEN /\ point = "done"
         /\ hist' = Record(Entry("write", "", explicit, "invalid"))
         /\ UNCHANGED <<files, scope, workspace, speech, translation, gatedFrom, pure>>
    ELSE /\ srt' = ArtifactAfter(point, srt,
                                 SrtText(blocks.data, _resolve_stage6_config(explicit)))
         /\ srtMeta' = SidecarAfter(point, srtMeta, WriteMetaOf(explicit))
         /\ hist' = [Record(Entry("write", "", explicit, Outcome(point)))
                       EXCEPT !.log = PrepareLog(BlocksRead(blocks.data),
                                                 _resolve_stage6_config(explicit).chars_per_line,
                                                 _resolve_stage6_config(explicit).max_lines)]
         /\ UNCHANGED <<asr, gated, gatedMeta, blocks, blocksMeta, scope, workspace, speech, translation, gatedFrom, pure>>

write_srt_ja(explicit) == WriteRun(explicit, "done")

write_srt_ja_interrupted(explicit, point) == WriteRun(explicit, point)

\* The speech-to-text stage replaces segments.asr.json
WriteAsr(segments) ==
    /\ asr # OkFile(segments)
    /\ asr' = OkFile(segments)
    /\ hist' = Record(Entry("asr", "", <<>>, "edit"))
    /\ UNCHANGED <<gated, gatedMeta, blocks, blocksMeta, srt, srtMeta, scope, workspace, speech, translation, gatedFrom, pure>>

\* segments.gated.json is rewritten by hand, its sidecar left as it is
EditGated(segments) ==
    /\ gated # OkFile(segments)
    /\ gated' = OkFile(segments)
    /\ gatedFrom' = NoSource
    /\ hist' = Record(Entry("gated", "", <<>>, "edit"))
    /\ UNCHANGED <<asr, gatedMeta, blocks, blocksMeta, srt, srtMeta, scope, workspace, speech, translation, pure>>

---------------------------------------------------------------------------
(* workspace.py: the workspace of an input media file                      *)

\* Two media files of one directory with one stem: both have the base
\* directory clip.av_srt
Paths == {"clip.mp4", "clip.mkv"}

\* workspace.py: _fingerprint_for_path, the values a file can have
Fingerprints == [size_bytes : {3, 5}, mtime : {1, 2}]

\* The most calls of init_workspace in a behaviour; the candidates are
\* base (0), base.001 (1), ..., one more than the calls can create
MaxCalls == 3

\* What an input path names: a regular file, a directory, or nothing
RegularFile(fingerprint) ==
    [kind |-> "file", size_bytes |-> fingerprint.size_bytes, mtime |-> fingerprint.mtime]

Directory == [kind |-> "directory", size_bytes |-> 3, mtime |-> 1]

NoPath == [kind |-> "absent", size_bytes |-> 0, mtime |-> 0]

InputKinds == {RegularFile(fingerprint) : fingerprint \in Fingerprints}
                \cup {Directory, NoPath}

\* A candidate directory that does not exist; log counts the lines of run.log
NoDir == [exists |-> FALSE, media |-> AbsentFile, log |-> 0]

\* The processes that call init_workspace side by side
Procs == {1, 2}

\* No call of init_workspace is under way
NoCalls ==
    [proc \in Procs |->
        [pc |-> "idle", input_path |-> "", fingerprint |-> [size_bytes |-> 0, mtime |-> 0],
         idx |-> 0, created |-> FALSE]]

\* The media files and directories while the stages of one workspace run
NoWorkspace ==
    /\ video = [path \in Paths |-> RegularFile([size_bytes |-> 3, mtime |-> 1])]
    /\ workDirs = [idx \in 0..MaxCalls |-> NoDir]
    /\ returned = <<>>
    /\ calls = NoCalls

\* workspace.py: _fingerprint_for_path
_fingerprint_for_path(path) ==
    [size_bytes |-> video[path].size_bytes, mtime |-> video[path].mtime]

\* _fingerprint_matches that compares the stored mtime with the size
MatchesMtimeWithSize(existing, fingerprint, input_path) ==
    /\ GetIs(existing, "input_path", input_path)
    /\ existing.fingerprint.size_bytes = fingerprint.size_bytes
    /\ existing.fingerprint.mtime = fingerprint.size_bytes

\* _fingerprint_matches without the comparison of mtime
MatchesSizeOnly(existing, fingerprint, input_path) ==
    /\ GetIs(existing, "input_path", input_path)
    /\ existing.fingerprint.size_bytes = fingerprint.size_bytes

\* workspace.py: _fingerprint_matches
_fingerprint_matches(existing, fingerprint, input_path) ==
    /\ GetIs(existing, "input_path", input_path)
    /\ existing.fingerprint.size_bytes = fingerprint.size_bytes
    /\ existing.fingerprint.mtime = fingerprint.mtime

\* workspace.py: _select_work_dir, the test under which a candidate that
\* exists is returned
Reusable(idx, fingerprint, input_path) ==
    /\ workDirs[idx].exists
    /\ Parses(workDirs[idx].media)
    /\ _fingerprint_matches(workDirs[idx].media.data, fingerprint, input_path)

\* workspace.py: _select_work_dir: the first candidate that matches or does
\* not exist, as <<index, created>>
_select_work_dir(fingerprint, input_path) ==
    LET candidate == CHOOSE idx \in 0..MaxCalls :
                         /\ ~workDirs[idx].exists \/ Reusable(idx, fingerprint, input_path)
                         /\ \A before \in 0..(idx - 1) :
                                workDirs[before].exists
                                  /\ ~Reusable(before, fingerprint, input_path)
    IN  <<candidate, ~workDirs[candidate].exists>>

\* workspace.py: _build_media_metadata, without created_at
_build_media_metadata(input_path, work_dir, fingerprint) ==
    [input_path |-> input_path, work_dir |-> work_dir, fingerprint |-> fingerprint]

\* init_workspace without the test of is_file: a directory has a stat too
InitWorkspaceOnAnyPath(input_path) ==
    LET fingerprint == _fingerprint_for_path(input_path)
        selected == _select_work_dir(fingerprint, input_path)
        work_dir == selected[1]
        media_metadata == _build_media_metadata(input_path, work_dir, fingerprint)
    IN  IF video[input_path].kind = "absent"
        THEN /\ hist' = Record(Entry("init_workspace", input_path, <<>>, "not_found"))
             /\ UNCHANGED <<files, scope, gatedFrom, workspace, speech, translation, pure>>
        ELSE /\ Len(returned) < MaxCalls
             /\ workDirs' = [workDirs EXCEPT ![work_dir] =
                                [exists |-> TRUE, media |-> OkFile(media_metadata),
                                 log |-> @.log + 1]]
             /\ returned' = Append(returned,
                                   [input_path |-> input_path, work_dir |-> work_dir,
                                    media_metadata |-> media_metadata,
                                    created |-> selected[2]])
             /\ UNCHANGED <<files, scope, gatedFrom, hist, video, calls, speech, translation, pure>>

\* workspace.py: init_workspace: FileNotFoundError ("not_found") and
\* ValueError ("invalid_input") are raised before anything is written; on a
\* regular file the directory is made, media.json written and a line
\* appended to run.log
init_workspace(input_path) ==
    LET fingerprint == _fingerprint_for_path(input_path)
        selected == _select_work_dir(fingerprint, input_path)
        work_dir == selected[1]
        media_metadata == _build_media_metadata(input_path, work_dir, fingerprint)
    IN  IF video[input_path].kind = "absent"
        THEN /\ hist' = Record(Entry("init_workspace", input_path, <<>>, "not_found"))
             /\ UNCHANGED <<files, scope, gatedFrom, workspace, speech, translation, pure>>
        ELSE IF video[input_path].kind # "file"
        THEN /\ hist' = Record(Entry("init_workspace", input_path, <<>>, "invalid_input"))
             /\ UNCHANGED <<files, scope, gatedFrom, workspace, speech, translation, pure>>
        ELSE /\ Len(returned) < MaxCalls
             /\ workDirs' = [workDirs EXCEPT ![work_dir] =
                                [exists |-> TRUE, media |-> OkFile(media_metadata),
                                 log |-> @.log + 1]]
             /\ returned' = Append(returned,
                                   [input_path |-> input_path, work_dir |-> work_dir,
                                    media_metadata |-> media_metadata,
                                    created |-> selected[2]])
             /\ UNCHANGED <<files, scope, gatedFrom, hist, video, calls, speech, translation, pure>>

\* The input file is written, rewritten or touched: its size or mtime changes
WriteVideo(path, fingerprint) ==
    /\ video[path].kind # "directory"
    /\ video[path] # RegularFile(fingerprint)
    /\ video' = [video EXCEPT ![path] = RegularFile(fingerprint)]
    /\ UNCHANGED <<files, scope, gatedFrom, hist, workDirs, returned, calls, speech,
                   translation, pure>>

\* The input file is deleted
RemoveVideo(path) ==
    /\ video[path].kind = "file"
    /\ video' = [video EXCEPT ![path] = NoPath]
    /\ UNCHANGED <<files, scope, gatedFrom, hist, workDirs, returned, calls, speech,
                   translation, pure>>

---------------------------------------------------------------------------
(* vad.py and asr.py: the speech spans and their transcription             *)

\* The most spans the detector returns
MaxRaw == 2

\* The times, in ms, on which it returns them
RawTimes == {-1, 0, 1, 2, 4}

\* What _run_silero_vad may return: spans <<start_ms, end_ms>> in any order,
\* inside the audio or not
RawSpans == RawTimes \X RawTimes

RawInputs == UNION {[1..n -> RawSpans] : n \in 0..MaxRaw}

\* The durations of audio.wav and the max_segment_ms of vad_segment
Durations == {0, 3}

MaxSegmentMs == {1, 2, 30000}

\* The files of the speech stages while the later stages run
NoSpeech ==
    /\ audio = AbsentFile
    /\ vad = AbsentFile
    /\ asrMeta = AbsentFile

RECURSIVE InsertByStart(_, _)
\* sorted(raw_segments, key=lambda seg: seg[0]) is stable: a span goes after
\* the spans with the same start
InsertByStart(x, sorted) ==
    IF sorted = <<>> THEN <<x>>
    ELSE IF x[1] < Head(sorted)[1] THEN <<x>> \o sorted
    ELSE <<Head(sorted)>> \o InsertByStart(x, Tail(sorted))

RECURSIVE SortByStart(_)
SortByStart(raw) ==
    IF raw = <<>> THEN <<>>
    ELSE InsertByStart(raw[Len(raw)], SortByStart(SubSeq(raw, 1, Len(raw) - 1)))

RECURSIVE _split_segment(_, _)
\* vad.py: _split_segment
_split_segment(segment, max_length_ms) ==
    IF segment[2] - segment[1] > max_length_ms
    THEN <<<<segment[1], segment[1] + max_length_ms>>>>
           \o _split_segment(<<segment[1] + max_length_ms, segment[2]>>, max_length_ms)
    ELSE IF segment[2] > segment[1] THEN <<segment>>
    ELSE <<>>

\* _normalize_segments without start_ms = max(start_ms, current_end)
RECURSIVE NormalizeLoopKeepingOverlap(_, _, _, _, _)
NormalizeLoopKeepingOverlap(sorted_segments, normalized, current_end, duration_ms, max_length_ms) ==
    IF sorted_segments = <<>> THEN normalized
    ELSE LET start_ms == Max(0, Head(sorted_segments)[1])
             end_ms == Min(duration_ms, Head(sorted_segments)[2])
             pieces == _split_segment(<<start_ms, end_ms>>, max_length_ms)
         IN  IF end_ms <= start_ms
             THEN NormalizeLoopKeepingOverlap(Tail(sorted_segments), normalized,
                                              current_end, duration_ms, max_length_ms)
             ELSE NormalizeLoopKeepingOverlap(Tail(sorted_segments), normalized \o pieces,
                                              pieces[Len(pieces)][2], duration_ms,
                                              max_length_ms)

RECURSIVE NormalizeLoop(_, _, _, _, _)
\* vad.py: _normalize_segments, the loop over the sorted spans
NormalizeLoop(sorted_segments, normalized, current_end, duration_ms, max_length_ms) ==
    IF sorted_segments = <<>> THEN normalized
    ELSE LET clamped_start == Max(0, Head(sorted_segments)[1])
             end_ms == Min(duration_ms, Head(sorted_segments)[2])
             start_ms == Max(clamped_start, current_end)
             pieces == _split_segment(<<start_ms, end_ms>>, max_length_ms)
         IN  IF end_ms <= clamped_start \/ start_ms >= end_ms
             THEN NormalizeLoop(Tail(sorted_segments), normalized, current_end,
                                duration_ms, max_length_ms)
             ELSE NormalizeLoop(Tail(sorted_segments), normalized \o pieces,
                                pieces[Len(pieces)][2], duration_ms, max_length_ms)

\* vad.py: _normalize_segments
_normalize_segments(raw_segments, duration_ms, max_length_ms) ==
    NormalizeLoop(SortByStart(raw_segments), <<>>, 0, duration_ms, max_length_ms)

\* vad.py: _generate_segments, given what the detector returned
_generate_segments(raw_segments, duration_ms, max_segment_ms) ==
    _normalize_segments(IF raw_segments = <<>> THEN <<<<0, duration_ms>>>>
                        ELSE raw_segments,
                        duration_ms, max_segment_ms)

\* vad.py: _write_segments, the list written
_write_segments(segments) ==
    [idx \in 1..Len(segments) |->
        [seg_id |-> idx - 1, start_ms |-> segments[idx][1], end_ms |-> segments[idx][2]]]

\* vad.py: _validate_cached_segments of a list of objects with integer fields
_validate_cached_segments(file) ==
    /\ Parses(file)
    /\ \A i \in 1..Len(file.data) :
           /\ DOMAIN file.data[i] = {"seg_id", "start_ms", "end_ms"}
           /\ file.data[i].seg_id = i - 1
           /\ file.data[i].start_ms >= 0
           /\ file.data[i].end_ms > file.data[i].start_ms
           /\ i > 1 => file.data[i].start_ms >= file.data[i - 1].end_ms

\* What the detector returns to a call of vad_segment: <<>> where it is not run
DetectorInputs ==
    IF (Exists(vad) /\ _validate_cached_segments(vad)) \/ ~Exists(audio)
    THEN {<<>>}
    ELSE RawInputs

\* vad_segment that writes an empty list of spans where audio.wav is absent
VadSegmentWithoutAudio(raw_segments, max_segment_ms) ==
    IF Exists(vad) /\ _validate_cached_segments(vad)
    THEN /\ raw_segments = <<>>
         /\ hist' = Record(Entry("vad", "", <<max_segment_ms>>, "hit"))
         /\ UNCHANGED <<files, scope, workspace, speech, translation, gatedFrom, pure>>
    ELSE /\ vad' = OkFile(_write_segments(
                              IF Exists(audio)
                              THEN _generate_segments(raw_segments, audio.data[1],
                                                      max_segment_ms)
                              ELSE <<>>))
         /\ hist' = [Record(Entry("vad", "", <<max_segment_ms>>, "miss"))
                       EXCEPT !.log = raw_segments]
         /\ UNCHANGED <<files, scope, workspace, audio, asrMeta, translation, gatedFrom, pure>>

\* vad.py: vad_segment; raw_segments is what the detector returns on
\* audio.wav, <<>> where it is not run
vad_segment(raw_segments, max_segment_ms) ==
    IF Exists(vad) /\ _validate_cached_segments(vad)
    THEN /\ raw_segments = <<>>
         /\ hist' = Record(Entry("vad", "", <<max_segment_ms>>, "hit"))
         /\ UNCHANGED <<files, scope, workspace, speech, translation, gatedFrom, pure>>
    ELSE IF ~Exists(audio)
    THEN /\ raw_segments = <<>>
         /\ hist' = Record(Entry("vad", "", <<max_segment_ms>>, "missing"))
         /\ UNCHANGED <<files, scope, workspace, speech, translation, gatedFrom, pure>>
    ELSE /\ vad' = OkFile(_write_segments(_generate_segments(raw_segments, audio.data[1],
                                                             max_segment_ms)))
         /\ hist' = [Record(Entry("vad", "", <<max_segment_ms>>, "miss"))
                       EXCEPT !.log = raw_segments]
         /\ UNCHANGED <<files, scope, workspace, audio, asrMeta, translation, gatedFrom, pure>>

\* asr.py: _load_vad_segments succeeds
VadLoads ==
    /\ Parses(vad)
    /\ \A i \in 1..Len(vad.data) :
           {"seg_id", "start_ms", "end_ms"} \subseteq DOMAIN vad.data[i]

\* asr.py: _asr_cache_matches; cached is <<>> for None
_asr_cache_matches(vad_segments, cached) ==
    /\ cached # <<>>
    /\ Len(cached[1]) = Len(vad_segments)
    /\ \A i \in 1..Len(vad_segments) :
           /\ {"seg_id", "start_ms", "end_ms"} \subseteq DOMAIN cached[1][i]
           /\ cached[1][i].seg_id = vad_segments[i].seg_id
           /\ cached[1][i].start_ms = vad_segments[i].start_ms
           /\ cached[1][i].end_ms = vad_segments[i].end_ms

\* asr.py: _meta_matches; cached_meta is <<>> for None
_asr_meta_matches(cached_meta, model_repo, language) ==
    /\ cached_meta # <<>>
    /\ GetIs(cached_meta[1], "model_repo", model_repo)
    /\ GetIs(cached_meta[1], "language", language)

\* asr.py: read_json under try/except: <<>> is None
ReadOrNone(file) == IF Parses(file) THEN <<file.data>> ELSE <<>>

\* asr.py: asr_transcribe, lines 142-155: the cache test
AsrCacheHit(model_repo, language) ==
    /\ Exists(asr)
    /\ _asr_cache_matches(vad.data, ReadOrNone(asr))
    /\ _asr_meta_matches(ReadOrNone(asrMeta), model_repo, language)

\* asr.py: asr_transcribe; text is what the model transcribes every clip to
asr_transcribe(model_repo, language, text) ==
    LET entry(out) == Entry("transcribe", language, <<model_repo>>, out)
        meta == [model_repo |-> model_repo, language |-> language]
    IN  IF ~Exists(vad)
        THEN /\ hist' = Record(entry("missing"))
             /\ UNCHANGED <<files, scope, workspace, speech, translation, gatedFrom, pure>>
        ELSE IF ~VadLoads
        THEN /\ hist' = Record(entry("invalid"))
             /\ UNCHANGED <<files, scope, workspace, speech, translation, gatedFrom, pure>>
        ELSE IF AsrCacheHit(model_repo, language)
        THEN /\ hist' = Record(entry("hit"))
             /\ UNCHANGED <<files, scope, workspace, speech, translation, gatedFrom, pure>>
        ELSE IF vad.data = <<>>
        THEN /\ asr' = OkFile(<<>>)
             /\ asrMeta' = OkFile(meta)
             /\ hist' = Record(entry("miss"))
             /\ UNCHANGED <<gated, gatedMeta, blocks, blocksMeta, srt, srtMeta, scope,
                            workspace, audio, vad, translation,
                            gatedFrom, pure>>
        ELSE IF ~Exists(audio)
        THEN /\ hist' = Record(entry("missing"))
             /\ UNCHANGED <<files, scope, workspace, speech, translation, gatedFrom, pure>>
        ELSE /\ asr' = OkFile([i \in 1..Len(vad.data) |->
                                  Seg(vad.data[i].seg_id, vad.data[i].start_ms,
                                      vad.data[i].end_ms, text)])
             /\ asrMeta' = OkFile(meta)
             /\ hist' = Record(entry("miss"))
             /\ UNCHANGED <<gated, gatedMeta, blocks, blocksMeta, srt, srtMeta, scope,
                            workspace, audio, vad, translation,
                            gatedFrom, pure>>

\* segments.vad.json is rewritten by hand
EditVad(segments) ==
    /\ vad # OkFile(segments)
    /\ vad' = OkFile(segments)
    /\ hist' = Record(Entry("vad_file", "", <<>>, "edit"))
    /\ UNCHANGED <<files, scope, workspace, audio, asrMeta, translation, gatedFrom, pure>>

---------------------------------------------------------------------------
(* translate.py: SRT entries, their rendering and their parsing            *)

\* No text rendered, nothing parsed
NotRendered == [done |-> FALSE, text |-> <<>>]

NotParsed == [done |-> FALSE, ok |-> FALSE, entries |-> <<>>]

\* The variables of render_srt and parse_srt while the stages run
\* No function has been applied
NotCalled == [op |-> "none", value |-> <<>>]

NoPure ==
    /\ given = <<>>
    /\ result = NotCalled

NoTranslation ==
    /\ subtitles = <<>>
    /\ rendered = NotRendered
    /\ parsed = NotParsed

\* translate.py: SrtEntry
SrtEntry(index, start_ts, end_ts, lines) ==
    [index |-> index, start_ts |-> start_ts, end_ts |-> end_ts, lines |-> lines]

\* translate.py: render_srt
render_srt(entries) ==
    RStrip(JoinLines(Concat([i \in 1..Len(entries) |->
                               <<FormatInt(entries[i].index),
                                 entries[i].start_ts \o <<" ", "-", "-", ">", " ">>
                                   \o entries[i].end_ts>>
                                 \o entries[i].lines \o << <<>> >>])))
      \o <<"nl">>

\* str.splitlines(), "nl" being the one line boundary of the model: the
\* pieces of split("\n") without a last empty piece
splitlines(text) ==
    LET breaks == {i \in 1..Len(text) : text[i] = "nl"}
        count == Cardinality(breaks)
        break(k) == IF k = 0 THEN 0
                    ELSE IF k > count THEN Len(text) + 1
                    ELSE CHOOSE i \in breaks : Cardinality({j \in breaks : j < i}) = k - 1
        pieces == [k \in 1..(count + 1) |-> SubSeq(text, break(k - 1) + 1, break(k) - 1)]
    IN  IF pieces[count + 1] = <<>> THEN SubSeq(pieces, 1, count) ELSE pieces

DigitChars == {"0", "1", "2", "3", "4", "5", "6", "7", "8", "9"}

DigitValue(ch) == CHOOSE d \in 0..9 : Digit(d) = ch

RECURSIVE NatOfDigits(_)
NatOfDigits(text) ==
    IF text = <<>> THEN 0
    ELSE 10 * NatOfDigits(SubSeq(text, 1, Len(text) - 1)) + DigitValue(text[Len(text)])

\* int(index_line) returns: an optional sign and one or more digits
IsIntLiteral(text) ==
    LET digits == IF text # <<>> /\ Head(text) \in {"-", "+"} THEN Tail(text) ELSE text
    IN  digits # <<>> /\ \A i \in 1..Len(digits) : digits[i] \in DigitChars

\* int(index_line)
IntOfLiteral(text) ==
    IF Head(text) = "-" THEN 0 - NatOfDigits(Tail(text))
    ELSE IF Head(text) = "+" THEN NatOfDigits(Tail(text))
    ELSE NatOfDigits(text)

\* The places of "-->" in a line
ArrowPlaces(line) ==
    {i \in 1..(Len(line) - 2) : line[i] = "-" /\ line[i + 1] = "-" /\ line[i + 2] = ">"}

\* A line with nothing but whitespace: not line.strip()
IsBlank(line) == Strip(line) = <<>>

RECURSIVE ParseLoop(_, _, _)
\* translate.py: parse_srt, the loop over the lines from index idx; ok is
\* FALSE where the code raises ValueError
ParseLoop(lines, idx, entries) ==
    IF idx > Len(lines) THEN [done |-> TRUE, ok |-> TRUE, entries |-> entries]
    ELSE IF IsBlank(lines[idx]) THEN ParseLoop(lines, idx + 1, entries)
    ELSE IF ~IsIntLiteral(Strip(lines[idx])) \/ idx + 1 > Len(lines)
    THEN [done |-> TRUE, ok |-> FALSE, entries |-> <<>>]
    ELSE LET timing == Strip(lines[idx + 1])
             first == CHOOSE i \in ArrowPlaces(timing) :
                          \A j \in ArrowPlaces(timing) : i <= j
             after == CHOOSE k \in (idx + 2)..(Len(lines) + 1) :
                          /\ k = Len(lines) + 1 \/ IsBlank(lines[k])
                          /\ \A j \in (idx + 2)..(k - 1) : ~IsBlank(lines[j])
         IN  IF ArrowPlaces(timing) = {}
             THEN [done |-> TRUE, ok |-> FALSE, entries |-> <<>>]
             ELSE ParseLoop(lines, after,
                            Append(entries,
                                   SrtEntry(IntOfLiteral(Strip(lines[idx])),
                                            Strip(SubSeq(timing, 1, first - 1)),
                                            Strip(SubSeq(timing, first + 3, Len(timing))),
                                            SubSeq(lines, idx + 2, after - 1))))

\* translate.py: parse_srt
parse_srt(text) == ParseLoop(splitlines(text), 1, <<>>)

\* A caller renders the entries it holds
RenderEntries ==
    /\ ~rendered.done
    /\ rendered' = [done |-> TRUE, text |-> render_srt(subtitles)]
    /\ UNCHANGED <<files, scope, workspace, speech, gatedFrom, hist, subtitles, parsed, pure>>

\* A caller parses the text rendered
ParseRendered ==
    /\ rendered.done /\ ~parsed.done
    /\ parsed' = parse_srt(rendered.text)
    /\ UNCHANGED <<files, scope, workspace, speech, gatedFrom, hist, subtitles, rendered, pure>>

---------------------------------------------------------------------------
(* The behaviours                                                          *)

\* A behaviour explores the runs of one stage, as the tests of the
\* repository do: scope "gate" starts from a fresh workspace and runs the
\* gate on the ASR artifacts that arrive; scope "blocks" starts from gated
\* segments (written by hand, or by a run of the gate on AsrA) and runs the
\* block builder and the normalizer; scope "render" starts from gated
\* segments written by hand, and runs the renderer on what the block builder
\* and the normalizer leave.
Scopes == {"gate", "blocks", "render"}

NoHistory == [prev |-> NoEntry, last |-> NoEntry, crashed |-> FALSE, log |-> <<>>]

InitFresh ==
    /\ asr = AbsentFile
    /\ gated = AbsentFile
    /\ gatedMeta = AbsentFile
    /\ gatedFrom = NoSource

InitHandWritten ==
    /\ asr = AbsentFile
    /\ gated \in {OkFile(segments) : segments \in GatedInputs}
    /\ gatedMeta = AbsentFile
    /\ gatedFrom = NoSource

InitGated ==
    /\ asr = OkFile(AsrA)
    /\ gated = OkFile(GateKeep(AsrA, "en", LenientGateConfig))
    /\ gatedMeta = OkFile(GateMetaOf(AsrA, "en", LenientGateConfig))
    /\ gatedFrom = [segments |-> AsrA, language |-> "en", config |-> LenientGateConfig]

Init ==
    /\ scope \in Scopes
    /\ CASE scope = "gate" -> InitFresh
         [] scope = "blocks" -> InitHandWritten \/ InitGated
         [] scope = "render" -> InitHandWritten
    /\ blocks = AbsentFile
    /\ blocksMeta = AbsentFile
    /\ srt = AbsentFile
    /\ srtMeta = AbsentFile
    /\ hist = NoHistory
    /\ NoTranslation
    /\ NoPure
    /\ NoWorkspace
    /\ NoSpeech

Next ==
    \/ /\ scope = "gate"
       /\ \E segments \in AsrInputs : WriteAsr(segments)
    \/ /\ scope = "gate"
       /\ \E params \in GateParams : gate_segments(params[1], params[2])
    \/ /\ scope = "gate"
       /\ \E params \in GateParams, point \in CrashPoints :
              gate_segments_interrupted(params[1], params[2], point)
    \/ /\ scope = "blocks"
       /\ \E segments \in GatedInputs : EditGated(segments)
    \/ /\ scope \in {"blocks", "render"}
       /\ \E config \in Stage6Configs : build_subtitle_blocks_ja(config)
    \/ /\ scope = "blocks"
       /\ \E config \in Stage6Configs, point \in CrashPoints :
              build_subtitle_blocks_ja_interrupted(config, point)
    \/ /\ scope \in {"blocks", "render"}
       /\ normalize_subtitle_blocks_ja
    \/ /\ scope = "blocks"
       /\ \E point \in CrashPoints : normalize_subtitle_blocks_ja_interrupted(point)
    \/ /\ scope = "render"
       /\ \E explicit \in ExplicitConfigs : write_srt_ja(explicit)
    \/ /\ scope = "render"
       /\ \E explicit \in ExplicitConfigs, point \in CrashPoints :
              write_srt_ja_interrupted(explicit, point)

Spec == Init /\ [][Next]_vars

---------------------------------------------------------------------------
(* The block builder on every valid gated input                            *)

\* The most segments of a gated input, and the last tick of the time grid
MaxSegs == 2

MaxTicks == 4

\* Segment times, in half seconds
TimeGrid == {500 * tick : tick \in 0..MaxTicks}

\* Segment texts of 1, 2 and 5 counted characters, one holding punctuation
BuildTexts ==
    {<<"a_ja">>, <<"a_ja", "i_ja">>, <<"a_ja", "ja_period", "i_ja", "a_ja", "i_ja">>}

\* Segments sorted by start_ms, non-overlapping, each with end_ms > start_ms
IsValidGated(data) ==
    /\ \A i \in 1..Len(data) : data[i].end_ms > data[i].start_ms
    /\ \A i \in 1..(Len(data) - 1) : data[i].end_ms <= data[i + 1].start_ms

ValidGatedInputs ==
    LET timed == {seg \in [start_ms : TimeGrid, end_ms : TimeGrid, text : BuildTexts] :
                     seg.end_ms > seg.start_ms}
        lists == UNION {[1..n -> timed] : n \in 0..MaxSegs}
    IN  {[i \in 1..Len(data) |->
             Seg(i - 1, data[i].start_ms, data[i].end_ms, data[i].text)] :
         data \in {list \in lists : IsValidGated(list)}}

\* Two adjacent segments of 4 and 5 characters in 2.5 s: merged they run at
\* 3.6 characters per second, 1.2 times the target of PacedStage6Config
PacedPair ==
    <<Seg(0, 0, 1000, <<"a_ja", "i_ja", "a_ja", "i_ja">>),
      Seg(1, 1000, 2500, <<"a_ja", "ja_period", "i_ja", "a_ja", "i_ja">>)>>

\* A configuration under which a merged block can be too fast and is split
\* between its segments
PacedStage6Config == [DefaultStage6Config EXCEPT !.target_chars_per_sec = 3]

BuildConfigs == Stage6Configs \cup {PacedStage6Config}

InitBuild ==
    /\ scope = "valid"
    /\ asr = AbsentFile
    /\ gated \in {OkFile(data) : data \in ValidGatedInputs \cup {PacedPair}}
    /\ gatedMeta = AbsentFile
    /\ gatedFrom = NoSource
    /\ blocks = AbsentFile
    /\ blocksMeta = AbsentFile
    /\ srt = AbsentFile
    /\ srtMeta = AbsentFile
    /\ hist = NoHistory
    /\ NoTranslation
    /\ NoPure
    /\ NoWorkspace
    /\ NoSpeech

NextBuild ==
    /\ scope = "valid"
    /\ \E config \in BuildConfigs : build_subtitle_blocks_ja(config)

SpecBuild == InitBuild /\ [][NextBuild]_vars

---------------------------------------------------------------------------
(* The properties                                                          *)

StageOps == {"gate", "build", "normalize", "write"}

\* hist.last is a run of the stage op that ended as out
LastRun(op, out) == hist.last.op = op /\ hist.last.out = out

\* C1: a stage run directly after a completed run of the same stage with the
\* same arguments, nothing changed in between, is a cache hit and writes no
\* file: neither the artifact nor the sidecar of any stage changes.
C1_SecondRunIsCacheHit ==
    [][(/\ hist'.last.op \in StageOps
        /\ hist'.prev.op = hist'.last.op
        /\ hist'.prev.out = "done"
        /\ hist'.prev.lang = hist'.last.lang
        /\ hist'.prev.conf = hist'.last.conf)
       => (hist'.last.out = "hit" /\ UNCHANGED files)]_vars

\* A second write_srt_ja with the same explicit configuration, and a second
\* gate_segments, ended as cache hits
C1_Witness ==
    /\ hist.prev.out = "done"
    /\ hist.prev.op = hist.last.op
    /\ hist.prev.conf = hist.last.conf
    /\ hist.prev.lang = hist.last.lang
    /\ hist.last.op \in {"write", "gate"}
    /\ hist.last.out = "hit"

\* C2: build_subtitle_blocks_ja, then normalize_subtitle_blocks_ja, then
\* build_subtitle_blocks_ja with the same configuration and the gated
\* segments unchanged: the second build is a cache hit and leaves
\* subtitle_blocks_ja.json as it is.
C2_BuildHitAfterNormalize ==
    [][(/\ hist.prev.op = "build"
        /\ hist.prev.out = "done"
        /\ hist.last.op = "normalize"
        /\ hist.last.out \in Completed
        /\ hist'.last.op = "build"
        /\ hist'.last.conf = hist.prev.conf)
       => (hist'.last.out = "hit" /\ blocks' = blocks)]_vars

\* What a full recomputation of the stage of hist.last would write, from the
\* upstream file and the arguments of that run
RecomputedArtifact ==
    CASE hist.last.op = "gate" ->
             OkFile(GateKeep(asr.data, hist.last.lang, hist.last.conf[1]))
      [] hist.last.op = "build" ->
             OkFile(BlocksPayload(gated.data, hist.last.conf[1]))
      [] hist.last.op = "write" ->
             OkFile(SrtText(blocks.data, _resolve_stage6_config(hist.last.conf)))

\* The artifact of the stage of hist.last
ArtifactOfLast ==
    CASE hist.last.op = "gate" -> gated
      [] hist.last.op = "build" -> blocks
      [] hist.last.op = "write" -> srt

\* C3: once a run of gate, block-build or render was interrupted after its
\* artifact was written or partly written and before its sidecar was
\* written, a later run of such a stage reports a cache hit only if the
\* artifact on disk is what a full recomputation from the current upstream
\* content and configuration would write.
C3_HitOnlyOnFreshArtifact ==
    (/\ hist.crashed
     /\ hist.last.op \in {"gate", "build", "write"}
     /\ hist.last.out = "hit")
    => ArtifactOfLast = RecomputedArtifact

\* The artifact and the sidecar of the gate come from one recomputation
GatePairConsistent ==
    \/ ~Exists(gated) /\ ~Exists(gatedMeta)
    \/ /\ Parses(gated) /\ Parses(gatedMeta)
       /\ gated.data = GateKeep(gatedFrom.segments, gatedFrom.language, gatedFrom.config)
       /\ gatedMeta.data
            = GateMetaOf(gatedFrom.segments, gatedFrom.language, gatedFrom.config)

\* The sidecar of the blocks records the digest of the blocks file beside it
BlocksPairConsistent ==
    \/ ~Exists(blocks) /\ ~Exists(blocksMeta)
    \/ /\ Parses(blocks) /\ Parses(blocksMeta)
       /\ IF GetIs(blocksMeta.data, "normalized", TRUE)
          THEN GetIs(blocksMeta.data, "normalized_blocks_sha256", _sha256_path(blocks))
          ELSE GetIs(blocksMeta.data, "blocks_sha256", _sha256_path(blocks))

\* The SRT file is the rendering of the blocks and the configuration its
\* sidecar records
SrtPairConsistent ==
    \/ ~Exists(srt) /\ ~Exists(srtMeta)
    \/ /\ Parses(srt) /\ Parses(srtMeta)
       /\ srt.data = SrtText(srtMeta.data.normalized_blocks_sha256.data,
                             ConfigOfPayload(srtMeta.data.wrap_config))

\* C4: in every reachable state, those left by an interruption included,
\* the artifact and the sidecar of the stage the behaviour runs are
\* consistent: both come from the same completed recomputation.
C4_ArtifactAndSidecarConsistent ==
    /\ scope = "gate" => GatePairConsistent
    /\ scope = "blocks" => BlocksPairConsistent
    /\ scope = "render" => SrtPairConsistent

\* C5: when segments.gated.json changes between two runs of
\* build_subtitle_blocks_ja that complete, the second run is a cache miss
\* and records an input_fingerprint other than the first run's, also when
\* segments.gated.meta.json exists and does not change.
C5_GatedChangeIsCacheMiss ==
    [][(/\ hist.prev.op = "build"
        /\ hist.prev.out = "done"
        /\ hist.last.op = "gated"
        /\ hist'.last.op = "build"
        /\ hist'.last.conf = hist.prev.conf
        /\ hist'.last.out \in Completed)
       => (/\ hist'.last.out = "miss"
           /\ blocksMeta'.data.input_fingerprint # blocksMeta.data.input_fingerprint)]_vars

\* C6: gate_segments reports a cache hit only when the ASR segment list, the
\* language and the GateConfig are those of the run that wrote
\* segments.gated.json; stated of the behaviours in which no run was
\* interrupted before its sidecar was written.
C6_GateHitOnlyOnSameInput ==
    (LastRun("gate", "hit") /\ ~hist.crashed)
    => gatedFrom = [segments |-> asr.data,
                    language |-> hist.last.lang,
                    config |-> hist.last.conf[1]]

\* C7: build_subtitle_blocks_ja and write_srt_ja report a cache hit only
\* when the configuration asked for is, field for field, the snapshot their
\* cached sidecar stores; and a write_srt_ja that directly follows a
\* completed write_srt_ja, with another chars_per_line, is not a cache hit:
\* run to the end, it re-renders and stores the configuration asked for.
C7_ConfigMismatchIsCacheMiss ==
    /\ LastRun("build", "hit")
         => GetIs(blocksMeta.data, "stage6_config",
                  _stage6_config_payload(hist.last.conf[1]))
    /\ LastRun("write", "hit")
         => GetIs(srtMeta.data, "wrap_config",
                  _stage6_config_payload(_resolve_stage6_config(hist.last.conf)))
    /\ (/\ hist.prev.op = "write" /\ hist.prev.out = "done"
        /\ hist.last.op = "write"
        /\ hist.prev.conf # <<>> /\ hist.last.conf # <<>>
        /\ hist.prev.conf[1].chars_per_line # hist.last.conf[1].chars_per_line)
         => /\ hist.last.out # "hit"
            /\ hist.last.out = "miss"
                 => /\ srtMeta.data.wrap_config = _stage6_config_payload(hist.last.conf[1])
                    /\ srt.data = SrtText(blocks.data, hist.last.conf[1])

\* write_srt_ja re-rendered, under another chars_per_line, the blocks a
\* completed write_srt_ja had rendered just before, and the text changed
C7_Witness ==
    /\ hist.prev.op = "write" /\ hist.prev.out = "done"
    /\ LastRun("write", "miss")
    /\ hist.prev.conf # <<>> /\ hist.last.conf # <<>>
    /\ hist.prev.conf[1].chars_per_line # hist.last.conf[1].chars_per_line
    /\ srt.data # SrtText(blocks.data, hist.prev.conf[1])

\* C8: the metadata a completed rendering of write_srt_ja writes records
\* the input_fingerprint of the block sidecar (stage6_input_fingerprint) and
\* the digest of the block sidecar (upstream_meta_sha256).
C8_RenderRecordsUpstreamSidecar ==
    (LastRun("write", "miss") /\ Parses(blocksMeta))
    => /\ GetIs(srtMeta.data, "stage6_input_fingerprint",
                blocksMeta.data.input_fingerprint)
       /\ GetIs(srtMeta.data, "upstream_meta_sha256", _sha256_path(blocksMeta))

\* C10: for every valid gated input, the blocks build_subtitle_blocks_ja
\* writes are sorted by (start_ms, end_ms) and do not overlap: the end_ms of
\* each block is at most the start_ms of the next.
C10_BlocksSortedNoOverlap ==
    (Parses(gated) /\ IsValidGated(gated.data) /\ Parses(blocks))
    => \A i \in 1..(Len(blocks.data) - 1) :
           /\ TimeKeyLeq(blocks.data[i], blocks.data[i + 1])
           /\ blocks.data[i].end_ms <= blocks.data[i + 1].start_ms

\* The builder wrote two or more blocks from one valid segment: it split
\* the block inside its text
C10_Witness ==
    /\ scope = "valid"
    /\ LastRun("build", "miss")
    /\ Len(gated.data) = 1
    /\ Len(blocks.data) >= 2

---------------------------------------------------------------------------
(* The renderer on one block of any text                                   *)

\* The longest text of a block
MaxTextLen == 4

\* The characters of a block's text: a letter, a mark wrap_japanese cuts
\* after, a space and a line break
RenderChars == {"a_ja", "ja_comma", " ", "nl"}

RenderTexts == UNION {[1..n -> RenderChars] : n \in 0..MaxTextLen}

\* <<start_ms, end_ms>> of the block: a span of 1 ms, which cannot be split,
\* one of 2 ms, which can be split once, and one of a second
RenderSpans == {<<0, 1>>, <<0, 2>>, <<0, 1000>>}

RenderBlocks ==
    {[block_id |-> 1, start_ms |-> span[1], end_ms |-> span[2], text |-> text] :
        span \in RenderSpans, text \in RenderTexts}

\* <<chars_per_line, max_lines>> of the configurations write_srt_ja is given
RenderConfigs ==
    {[DefaultStage6Config EXCEPT !.chars_per_line = limits[1], !.max_lines = limits[2]] :
        limits \in {<<2, 1>>, <<3, 2>>, <<1, 2>>}}

InitRender ==
    /\ scope = "srt"
    /\ asr = AbsentFile
    /\ gated = AbsentFile
    /\ gatedMeta = AbsentFile
    /\ gatedFrom = NoSource
    /\ blocks \in {OkFile(<<block>>) : block \in RenderBlocks}
    /\ blocksMeta = AbsentFile
    /\ srt = AbsentFile
    /\ srtMeta = AbsentFile
    /\ hist = NoHistory
    /\ NoTranslation
    /\ NoPure
    /\ NoWorkspace
    /\ NoSpeech

NextRender ==
    /\ scope = "srt"
    /\ \E config \in RenderConfigs : write_srt_ja(<<config>>)

SpecRender == InitRender /\ [][NextRender]_vars

\* The lines of a text file: text.split("\n")
SplitLines(text) ==
    LET breaks == {i \in 1..Len(text) : text[i] = "nl"}
        count == Cardinality(breaks)
        break(k) == IF k = 0 THEN 0
                    ELSE IF k > count THEN Len(text) + 1
                    ELSE CHOOSE i \in breaks : Cardinality({j \in breaks : j < i}) = k - 1
    IN  [k \in 1..(count + 1) |-> SubSeq(text, break(k - 1) + 1, break(k) - 1)]

RECURSIVE GroupEntries(_, _)
\* The entries of an SRT file: the runs of lines between empty lines
GroupEntries(lines, entry) ==
    IF lines = <<>> THEN (IF entry = <<>> THEN <<>> ELSE <<entry>>)
    ELSE IF Head(lines) = <<>>
    THEN (IF entry = <<>> THEN <<>> ELSE <<entry>>) \o GroupEntries(Tail(lines), <<>>)
    ELSE GroupEntries(Tail(lines), Append(entry, Head(lines)))

\* The entries of the SRT text: each a sequence of lines, the index line and
\* the timing line first
SrtEntries(text) == GroupEntries(SplitLines(text), <<>>)

\* The text lines of an entry
TextLines(entry) == SubSeq(entry, 3, Len(entry))

\* What write_srt_ja prepared for the run of hist.last
PreparedOfLast ==
    _prepare_srt_blocks(blocks.data,
                        _resolve_stage6_config(hist.last.conf).chars_per_line,
                        _resolve_stage6_config(hist.last.conf).max_lines)

\* C11: in the SRT file write_srt_ja wrote, the entries are those prepared,
\* and every entry that is not a forced-overflow fallback has at most
\* max_lines text lines, each of at most chars_per_line characters.
C11_EntriesWithinLimits ==
    (LastRun("write", "miss") /\ Parses(srt))
    => LET config == _resolve_stage6_config(hist.last.conf)
           entries == SrtEntries(srt.data)
       IN  /\ Len(entries) = Len(PreparedOfLast)
           /\ \A k \in 1..Len(entries) :
                  ~PreparedOfLast[k].has_lines
                  => /\ Len(TextLines(entries[k])) <= config.max_lines
                     /\ \A j \in 1..Len(TextLines(entries[k])) :
                            Len(TextLines(entries[k])[j]) <= config.chars_per_line

\* C12: for the text of every block write_srt_ja wrapped, wrap_japanese
\* returns at most max_lines lines, and the lines hold the whole text: what
\* remains after max_lines lines is in the last line.
C12_WrapAtMostMaxLines ==
    LastRun("write", "miss")
    => LET config == _resolve_stage6_config(hist.last.conf)
       IN  \A i \in 1..Len(blocks.data) :
               LET lines == wrap_japanese(blocks.data[i].text,
                                          config.chars_per_line, config.max_lines)
               IN  /\ Len(lines) <= config.max_lines
                   /\ Concat(lines) = blocks.data[i].text

\* The one block of the blocks file is at most 1 ms long and its text wraps
\* into more than max_lines lines under the configuration of hist.last
UnsplittableOverflow ==
    /\ Len(blocks.data) = 1
    /\ blocks.data[1].end_ms - blocks.data[1].start_ms <= 1
    /\ Len(wrap_japanese(blocks.data[1].text,
                         _resolve_stage6_config(hist.last.conf).chars_per_line,
                         _resolve_stage6_config(hist.last.conf).max_lines))
         > _resolve_stage6_config(hist.last.conf).max_lines

\* C13: a block of at most 1 ms whose text wraps into more than max_lines
\* lines is not split in time by a completed write_srt_ja: the SRT file
\* holds one entry for it, at the block's start_ms and end_ms, with
\* exactly max_lines text lines whose concatenation is the block's text, and
\* the run appends one 'unsplittable' warning to run.log.
C13_UnsplittableIsForceWrapped ==
    (LastRun("write", "miss") /\ UnsplittableOverflow)
    => LET block == blocks.data[1]
           entries == SrtEntries(srt.data)
       IN  /\ hist.log = <<[warn |-> "unsplittable", block_id |-> block.block_id,
                            duration_ms |-> block.end_ms - block.start_ms]>>
           /\ Len(entries) = 1
           /\ Len(entries[1]) >= 2
           /\ entries[1][2] = format_timestamp(block.start_ms)
                                \o <<" ", "-", "-", ">", " ">>
                                \o format_timestamp(block.end_ms)
           /\ Len(TextLines(entries[1]))
                = _resolve_stage6_config(hist.last.conf).max_lines
           /\ Concat(TextLines(entries[1])) = block.text

---------------------------------------------------------------------------
(* Constraint enforcement and the merge pass                               *)

\* The blocks the last build emitted from constraint enforcement, each with
\* its constituent segments, before they are sorted and numbered
EmittedOfLast ==
    EnforceAll(_merge_segments(_load_gated_segments(gated.data), hist.last.conf[1]),
               hist.last.conf[1])

\* C14: for every valid gated input, each block constraint enforcement emits
\* is within the three limits (duration <= max_block_ms, counted characters
\* <= max_chars_per_block, characters per second <= target_chars_per_sec) or
\* is unsplittable: one constituent segment, and at most one character of
\* text or a span of at most 1 ms. The blocks written are the emitted ones.
C14_EmittedWithinLimitsOrUnsplittable ==
    (LastRun("build", "miss") /\ IsValidGated(gated.data))
    => LET config == hist.last.conf[1]
       IN  /\ \A i \in 1..Len(EmittedOfLast) :
                  LET block == EmittedOfLast[i]
                      duration == block.end_ms - block.start_ms
                  IN  \/ /\ duration <= config.max_block_ms
                         /\ count_jp_chars(block.text) <= max_chars_per_block(config)
                         /\ count_jp_chars(block.text) * 1000
                              <= config.target_chars_per_sec * duration
                      \/ /\ Len(block.segments) = 1
                         /\ Len(block.text) <= 1 \/ duration <= 1
           /\ Len(blocks.data) = Len(EmittedOfLast)
           /\ \A i \in 1..Len(blocks.data) :
                  \E j \in 1..Len(EmittedOfLast) :
                      /\ EmittedOfLast[j].start_ms = blocks.data[i].start_ms
                      /\ EmittedOfLast[j].end_ms = blocks.data[i].end_ms
                      /\ EmittedOfLast[j].text = blocks.data[i].text

\* A build split a block down to blocks of one character that are still
\* faster than target_chars_per_sec: it emitted unsplittable blocks beyond
\* a limit
C14_Witness ==
    /\ LastRun("build", "miss")
    /\ IsValidGated(gated.data)
    /\ Len(EmittedOfLast) > Len(gated.data)
    /\ \E i \in 1..Len(EmittedOfLast) :
           /\ Len(EmittedOfLast[i].text) = 1
           /\ _block_needs_split(EmittedOfLast[i], hist.last.conf[1])

\* The blocks of the merge pass of the last build, each with its segments
MergedOfLast == _merge_segments(_load_gated_segments(gated.data), hist.last.conf[1])

\* C15: in the merge pass of a build over a valid gated input, a segment
\* extends the open block if and only if the gap is <= merge_gap_ms, the
\* merged duration <= max_block_ms, the merged counted characters <=
\* max_chars_per_block and the merged characters per second <= 1.2 times
\* target_chars_per_sec: every segment of a merged block after its first
\* met the four conditions with the segments before it, and the first
\* segment of every later block failed one of them with the block before.
C15_ExtendsIffFourConditions ==
    (LastRun("build", "miss") /\ IsValidGated(gated.data))
    => LET config == hist.last.conf[1]
           Extends(current, seg) ==
               LET merged_duration == Max(current.end_ms, seg.end_ms) - current.start_ms
                   merged_chars == count_jp_chars(current.text \o seg.text)
               IN  /\ Max(seg.start_ms - current.end_ms, 0) <= config.merge_gap_ms
                   /\ merged_duration <= config.max_block_ms
                   /\ merged_chars <= max_chars_per_block(config)
                   /\ merged_chars * 10000
                        <= 12 * config.target_chars_per_sec * merged_duration
       IN  /\ \A b \in 1..Len(MergedOfLast) :
                  \A k \in 1..(Len(MergedOfLast[b].segments) - 1) :
                      Extends(BlockOfSegments(SubSeq(MergedOfLast[b].segments, 1, k)),
                              MergedOfLast[b].segments[k + 1])
           /\ \A b \in 1..(Len(MergedOfLast) - 1) :
                  ~Extends(MergedOfLast[b], MergedOfLast[b + 1].segments[1])

\* C16: after build_subtitle_blocks_ja on a valid gated input, short blocks
\* have been consolidated: no block written is shorter than min_block_ms
\* while a block next to it lies within merge_gap_ms of it and the two
\* together span at most max_block_ms.
C16_ShortBlocksConsolidated ==
    (LastRun("build", "miss") /\ IsValidGated(gated.data))
    => LET config == hist.last.conf[1]
           Short(i) == blocks.data[i].end_ms - blocks.data[i].start_ms
                         < config.min_block_ms
           Mergeable(i) ==
               /\ blocks.data[i + 1].start_ms - blocks.data[i].end_ms
                    <= config.merge_gap_ms
               /\ blocks.data[i + 1].end_ms - blocks.data[i].start_ms
                    <= config.max_block_ms
       IN  \A i \in 1..(Len(blocks.data) - 1) :
               (Short(i) \/ Short(i + 1)) => ~Mergeable(i)

---------------------------------------------------------------------------
(* The gate on ASR segments that meet every rule                           *)

\* Texts that are null, blank, punctuation only, one character, Latin only,
\* plain Japanese and mixed
GateTexts ==
    {Null, <<" ">>, <<"ja_period">>, <<"a_ja">>, <<"x", "x", "x">>,
     <<"a_ja", "i_ja">>, <<"a_ja", " ", "x">>}

\* segments.asr.json of up to MaxSegs segments, 2 s apart, each 0.1 s or 1 s long
GateAsrInputs ==
    LET timed == [duration_ms : {100, 1000}, text : GateTexts]
        lists == UNION {[1..n -> timed] : n \in 0..MaxSegs}
    IN  {[i \in 1..Len(list) |->
             Seg(i - 1, 2000 * (i - 1), 2000 * (i - 1) + list[i].duration_ms,
                 list[i].text)] : list \in lists}

\* segments.asr.json that _load_asr_segments accepts (every item has its
\* keys and integer times) with two segments of one seg_id, out of order and
\* overlapping; with a negative start; with an end before the start
AsrOutOfOrder ==
    <<Seg(0, 1000, 2000, <<"a_ja", "i_ja">>), Seg(0, 500, 1500, <<"a_ja", "i_ja">>)>>

AsrNegativeStart == <<Seg(0, -500, 500, <<"a_ja", "i_ja">>)>>

AsrEndBeforeStart == <<Seg(0, 900, 500, <<"a_ja", "i_ja">>)>>

\* The (language, config) pairs of GateParams, and the default rules with
\* drop_if_contains_only_punct switched off
GateRuleParams ==
    GateParams
      \cup {<<"ja", [DefaultGateConfig EXCEPT !.drop_if_contains_only_punct = FALSE]>>}

InitGate ==
    /\ scope = "asr"
    /\ asr \in {OkFile(segments) :
                   segments \in GateAsrInputs
                                 \cup {AsrOutOfOrder, AsrNegativeStart, AsrEndBeforeStart}}
    /\ gated = AbsentFile
    /\ gatedMeta = AbsentFile
    /\ gatedFrom = NoSource
    /\ blocks = AbsentFile
    /\ blocksMeta = AbsentFile
    /\ srt = AbsentFile
    /\ srtMeta = AbsentFile
    /\ hist = NoHistory
    /\ NoTranslation
    /\ NoPure
    /\ NoWorkspace
    /\ NoSpeech

NextGate ==
    /\ scope = "asr"
    /\ \E params \in GateRuleParams : gate_segments(params[1], params[2])

SpecGate == InitGate /\ [][NextGate]_vars

\* The reason the rules of the gate give for one ASR segment, taking the
\* rules in the order empty, punct-only, too-short, too-fast, low-ja-ratio,
\* repeated-char; "" when no rule matches
FirstRule(item, language, config) ==
    LET text == IF item.text = Null THEN <<>> ELSE item.text
        duration_ms == item.end_ms - item.start_ms
        visible == SelectSeq(text, NotSpace)
        stripped == Strip(text)
        letters == CountIf(text, JapaneseChars \cup LatinChars)
        counts == {CountIf(visible, {visible[k]}) : k \in 1..Len(visible)}
        most == IF counts = {} THEN 0
                ELSE CHOOSE n \in counts : \A other \in counts : other <= n
        rules ==
            <<[reason |-> "empty", matches |-> visible = <<>>],
              [reason |-> "punct-only",
               matches |-> config.drop_if_contains_only_punct /\ letters = 0],
              [reason |-> "too-short",
               matches |-> Len(stripped) < config.min_text_chars /\ duration_ms >= 1000],
              [reason |-> "too-fast",
               matches |-> Len(stripped) * 1000 > config.max_chars_per_sec * duration_ms],
              [reason |-> "low-ja-ratio",
               matches |-> /\ language = "ja"
                           /\ IF letters = 0 THEN 0 < config.min_japanese_char_ratio
                              ELSE CountIf(text, JapaneseChars) * 100
                                     < config.min_japanese_char_ratio * letters],
              [reason |-> "repeated-char",
               matches |-> most * 100 > config.max_repeated_char_ratio * Len(visible)]>>
        matching == {k \in 1..Len(rules) : rules[k].matches}
    IN  IF matching = {} THEN ""
        ELSE rules[CHOOSE k \in matching : \A other \in matching : k <= other].reason

\* C17: a completed run of the gate drops each segment with the reason of
\* the first rule that matches it, in the order empty, punct-only (if
\* configured), too-short (fewer than min_text_chars characters between the
\* whitespace at the two ends of the text, and a duration >= 1 s), too-fast, low script ratio (for the language "ja"),
\* repeated-char, and keeps the segments no rule matches: run.log names each
\* dropped segment with that reason, segments.gated.json holds the others,
\* and no segment shorter than 1 s is dropped as too-short.
C17_FirstMatchingRuleDrops ==
    LastRun("gate", "miss")
    => LET language == hist.last.lang
           config == hist.last.conf[1]
           Dropped(item) == FirstRule(item, language, config) # ""
           Kept(item) == FirstRule(item, language, config) = ""
           drops == SelectSeq(asr.data, Dropped)
           keeps == SelectSeq(asr.data, Kept)
       IN  /\ Len(hist.log) = Len(drops)
           /\ \A i \in 1..Len(drops) :
                  /\ hist.log[i].seg_id = drops[i].seg_id
                  /\ hist.log[i].reason = FirstRule(drops[i], language, config)
                  /\ hist.log[i].reason = "too-short"
                       => drops[i].end_ms - drops[i].start_ms >= 1000
           /\ Len(gated.data) = Len(keeps)
           /\ \A i \in 1..Len(keeps) : gated.data[i].seg_id = keeps[i].seg_id

\* A run of the gate dropped a segment that two rules match, one character
\* lasting 1 s being both too short and one repeated character, and kept
\* another segment
C17_Witness ==
    /\ LastRun("gate", "miss")
    /\ Len(gated.data) = 1
    /\ \E i \in 1..Len(hist.log) :
           /\ hist.log[i].reason = "too-short"
           /\ asr.data[hist.log[i].seg_id + 1].text = <<"a_ja">>

\* C18: segments.gated.json written by a completed run of the gate is a
\* subsequence of the ASR segments: its segments are ASR segments taken in
\* increasing position, each with its seg_id, start_ms and end_ms, and its
\* text, a string and never null, the text of the ASR segment.
C18_GatedIsSubsequence ==
    LastRun("gate", "miss")
    => \E from \in [1..Len(gated.data) -> 1..Len(asr.data)] :
           /\ \A i \in 1..(Len(gated.data) - 1) : from[i] < from[i + 1]
           /\ \A i \in 1..Len(gated.data) :
                  /\ gated.data[i].seg_id = asr.data[from[i]].seg_id
                  /\ gated.data[i].start_ms = asr.data[from[i]].start_ms
                  /\ gated.data[i].end_ms = asr.data[from[i]].end_ms
                  /\ gated.data[i].text # Null
                  /\ asr.data[from[i]].text # Null
                       => gated.data[i].text = asr.data[from[i]].text

\* A run of the gate dropped the first ASR segment and kept the second
C18_Witness ==
    /\ LastRun("gate", "miss")
    /\ Len(asr.data) = 2
    /\ Len(gated.data) = 1
    /\ gated.data[1].seg_id = asr.data[2].seg_id

---------------------------------------------------------------------------
(* init_workspace on input files that are rewritten between the calls      *)

InitWorkspace ==
    /\ scope = "workspace"
    /\ asr = AbsentFile
    /\ gated = AbsentFile
    /\ gatedMeta = AbsentFile
    /\ gatedFrom = NoSource
    /\ blocks = AbsentFile
    /\ blocksMeta = AbsentFile
    /\ srt = AbsentFile
    /\ srtMeta = AbsentFile
    /\ hist = NoHistory
    /\ NoTranslation
    /\ NoPure
    /\ video \in [Paths -> {RegularFile(fingerprint) : fingerprint \in Fingerprints}]
    /\ workDirs = [idx \in 0..MaxCalls |-> NoDir]
    /\ returned = <<>>
    /\ calls = NoCalls
    /\ NoSpeech

NextWorkspace ==
    /\ scope = "workspace"
    /\ \/ \E path \in Paths : init_workspace(path)
       \/ \E path \in Paths, fingerprint \in Fingerprints : WriteVideo(path, fingerprint)

SpecWorkspace == InitWorkspace /\ [][NextWorkspace]_vars

\* C19: whatever calls of init_workspace and rewrites of the input files came
\* before, a call on an input file whose (size_bytes, mtime) is what it was
\* at the call before it on that file returns the work_dir of that call and
\* creates no directory.
C19_UnchangedFileReusesWorkDir ==
    \A j \in 1..Len(returned) :
        \A i \in 1..(j - 1) :
            (/\ returned[i].input_path = returned[j].input_path
             /\ \A between \in (i + 1)..(j - 1) :
                    returned[between].input_path # returned[j].input_path
             /\ returned[i].media_metadata.fingerprint
                  = returned[j].media_metadata.fingerprint)
            => /\ returned[j].work_dir = returned[i].work_dir
               /\ ~returned[j].created

\* A second call on an unchanged file reused base.001: base belongs to
\* another identity
C19_Witness ==
    \E j \in 2..Len(returned) :
        /\ returned[j].input_path = returned[j - 1].input_path
        /\ returned[j].media_metadata.fingerprint
             = returned[j - 1].media_metadata.fingerprint
        /\ returned[j].work_dir = 1
        /\ ~returned[j].created

\* C20: a call of init_workspace skips every candidate directory that
\* exists with a stored identity other than the file's fingerprint: it
\* leaves the directory and its media.json as they are and returns the
\* first candidate in the order base, base.001, base.002, ... that is not
\* such a directory; and no two calls made with different fingerprints have
\* returned the same work_dir.
C20_MismatchedDirIsSkipped ==
    [][/\ Len(returned') = Len(returned) + 1
          => LET call == returned'[Len(returned')]
                 Mismatched(idx) ==
                     /\ workDirs[idx].exists
                     /\ \/ ~Parses(workDirs[idx].media)
                        \/ workDirs[idx].media.data.input_path # call.input_path
                        \/ workDirs[idx].media.data.fingerprint
                             # _fingerprint_for_path(call.input_path)
             IN  /\ \A idx \in 0..MaxCalls :
                        Mismatched(idx)
                        => workDirs'[idx] = workDirs[idx] /\ call.work_dir # idx
                 /\ \A idx \in 0..(call.work_dir - 1) : Mismatched(idx)
       /\ \A i, j \in 1..Len(returned') :
              returned'[i].media_metadata.fingerprint
                # returned'[j].media_metadata.fingerprint
              => returned'[i].work_dir # returned'[j].work_dir]_vars

\* A call on a rewritten file skipped base, which holds the identity of the
\* file as it was, and created base.001
C20_Witness ==
    \E j \in 2..Len(returned) :
        /\ returned[j].input_path = returned[1].input_path
        /\ returned[j].media_metadata.fingerprint
             # returned[1].media_metadata.fingerprint
        /\ returned[1].work_dir = 0
        /\ returned[j].work_dir = 1
        /\ returned[j].created
        /\ workDirs[0].media.data = returned[1].media_metadata

---------------------------------------------------------------------------
(* init_workspace on a path that names no regular file                     *)

\* The input paths name a regular file, a directory or nothing, and the
\* files are deleted and written again between the calls
InitInput ==
    /\ scope = "input"
    /\ asr = AbsentFile
    /\ gated = AbsentFile
    /\ gatedMeta = AbsentFile
    /\ gatedFrom = NoSource
    /\ blocks = AbsentFile
    /\ blocksMeta = AbsentFile
    /\ srt = AbsentFile
    /\ srtMeta = AbsentFile
    /\ hist = NoHistory
    /\ NoTranslation
    /\ NoPure
    /\ video \in [Paths -> InputKinds]
    /\ workDirs = [idx \in 0..MaxCalls |-> NoDir]
    /\ returned = <<>>
    /\ calls = NoCalls
    /\ NoSpeech

NextInput ==
    /\ scope = "input"
    /\ \/ \E path \in Paths : init_workspace(path)
       \/ \E path \in Paths : RemoveVideo(path)
       \/ \E path \in Paths : WriteVideo(path, [size_bytes |-> 3, mtime |-> 1])

SpecInput == InitInput /\ [][NextInput]_vars

\* A step is a call of init_workspace on path: it raised, or it returned a
\* context
CallOn(path) ==
    \/ /\ hist' # hist
       /\ hist'.last.op = "init_workspace"
       /\ hist'.last.lang = path
    \/ /\ Len(returned') = Len(returned) + 1
       /\ returned'[Len(returned')].input_path = path

\* C30: a call of init_workspace on a path that does not exist fails with
\* the not-found error, a call on a path that exists and is not a regular
\* file fails with the invalid-input error, and neither creates or changes
\* a candidate directory, its media.json or its run.log.
C30_BadInputLeavesNoTrace ==
    [][\A path \in Paths :
          (CallOn(path) /\ video[path].kind # "file")
          => /\ hist' # hist
             /\ hist'.last.out = IF video[path].kind = "absent" THEN "not_found"
                                 ELSE "invalid_input"
             /\ workDirs' = workDirs
             /\ returned' = returned]_vars

\* The call on clip.mp4 failed with not-found after the file, which has a
\* workspace with one line in run.log, was deleted, and the call before it
\* on the directory clip.mkv failed with invalid-input
C30_Witness ==
    /\ hist.last = Entry("init_workspace", "clip.mp4", <<>>, "not_found")
    /\ hist.prev = Entry("init_workspace", "clip.mkv", <<>>, "invalid_input")
    /\ \E i \in 1..Len(returned) : returned[i].input_path = "clip.mp4"
    /\ workDirs[0].exists /\ workDirs[0].log = 1

---------------------------------------------------------------------------
(* vad_segment and asr_transcribe on one workspace                         *)

\* tests/test_asr.py:22: segments.vad.json written by hand
VadByHand == <<[seg_id |-> 0, start_ms |-> 0, end_ms |-> 1000]>>

\* tests/test_asr.py:83-86: spans numbered from 2, which vad_segment does
\* not take for its cache
VadNumberedFromTwo ==
    <<[seg_id |-> 2, start_ms |-> 2000, end_ms |-> 3000],
      [seg_id |-> 3, start_ms |-> 3000, end_ms |-> 4000]>>

\* tests/test_asr.py:25: segments.asr.json written by hand
AsrByHand == <<Seg(0, 0, 1000, <<"x">>)>>

ModelRepos == {"mlx-community/whisper-large-v3-mlx", "mlx-community/whisper-tiny"}

SpeechTexts == {<<"a_ja">>, <<"x">>}

InitSpeech ==
    /\ scope \in {"vad", "transcribe"}
    /\ audio \in {AbsentFile} \cup {OkFile(<<duration_ms>>) : duration_ms \in Durations}
    /\ vad \in {AbsentFile, OkFile(VadByHand)}
                \cup (IF scope = "vad" THEN {OkFile(VadNumberedFromTwo)} ELSE {})
    /\ asr \in IF scope = "vad" THEN {AbsentFile} ELSE {AbsentFile, OkFile(AsrByHand)}
    /\ asrMeta = AbsentFile
    /\ gated = AbsentFile
    /\ gatedMeta = AbsentFile
    /\ gatedFrom = NoSource
    /\ blocks = AbsentFile
    /\ blocksMeta = AbsentFile
    /\ srt = AbsentFile
    /\ srtMeta = AbsentFile
    /\ hist = NoHistory
    /\ NoTranslation
    /\ NoPure
    /\ video = [path \in Paths |-> RegularFile([size_bytes |-> 3, mtime |-> 1])]
    /\ workDirs = [idx \in 0..MaxCalls |-> NoDir]
    /\ returned = <<>>
    /\ calls = NoCalls

\* Scope "vad" runs vad_segment on what the detector may return; scope
\* "transcribe" runs asr_transcribe on span files written by hand
NextSpeech ==
    \/ /\ scope = "vad"
       /\ \E raw_segments \in DetectorInputs, max_segment_ms \in MaxSegmentMs :
              vad_segment(raw_segments, max_segment_ms)
    \/ /\ scope = "transcribe"
       /\ \E model_repo \in ModelRepos, language \in {"ja", "en"}, text \in SpeechTexts :
              asr_transcribe(model_repo, language, text)
    \/ /\ scope = "transcribe"
       /\ \E segments \in {<<>>, VadByHand, VadNumberedFromTwo} : EditVad(segments)

SpecSpeech == InitSpeech /\ [][NextSpeech]_vars

\* C29: whenever vad_segment has recomputed segments.vad.json, the spans it
\* wrote, which are the output of _normalize_segments on what the detector
\* returned, each satisfy 0 <= start < end <= duration and
\* end - start <= max_segment_ms, and each ends no later than the next starts
C29_NormalizedSpansValid ==
    (hist.last.op = "vad" /\ hist.last.out = "miss")
      => /\ \A i \in 1..Len(vad.data) :
                /\ 0 <= vad.data[i].start_ms
                /\ vad.data[i].start_ms < vad.data[i].end_ms
                /\ vad.data[i].end_ms <= audio.data[1]
                /\ vad.data[i].end_ms - vad.data[i].start_ms <= hist.last.conf[1]
         /\ \A i \in 1..(Len(vad.data) - 1) :
                vad.data[i].end_ms <= vad.data[i + 1].start_ms

\* vad_segment wrote three spans of at most 1 ms after the detector returned
\* two spans out of order that overlap, the later one running past the end
\* of the audio
C29_Witness ==
    /\ hist.last.op = "vad" /\ hist.last.out = "miss"
    /\ hist.last.conf[1] = 1
    /\ Len(hist.log) = 2
    /\ hist.log[1][1] > hist.log[2][1]
    /\ hist.log[1][1] < hist.log[2][2]
    /\ hist.log[1][2] > audio.data[1]
    /\ Len(vad.data) = 3

\* C25: a call of asr_transcribe in a workspace whose segments.asr.json
\* exists and matches the spans of segments.vad.json one to one, in order, on
\* seg_id, start_ms and end_ms, is a cache hit and leaves segments.asr.json
\* as it is
C25_MatchingAsrIsCacheHit ==
    [][(/\ hist'.last.op = "transcribe"
        /\ hist' # hist
        /\ Exists(vad) /\ VadLoads
        /\ Exists(asr)
        /\ _asr_cache_matches(vad.data, ReadOrNone(asr)))
       => (hist'.last.out = "hit" /\ asr' = asr)]_vars

---------------------------------------------------------------------------
(* The stages on upstream files that are absent or malformed               *)

\* segments.gated.json with an item that has no text
GatedWithoutText == <<[seg_id |-> 0, start_ms |-> 0, end_ms |-> 1000]>>

\* subtitle_blocks_ja.json with a block that has no text, and with a block
\* that has no start_ms and no end_ms
BlocksWithoutText == <<[block_id |-> 1, start_ms |-> 0, end_ms |-> 1000]>>

BlocksWithoutTimes == <<[block_id |-> 1, text |-> <<"a_ja", " ">>]>>

MalformedBlocks == {BlocksWithoutText, BlocksWithoutTimes}

\* What segments.gated.json holds when it is written by hand in this scope
UpstreamGated == {GateKeep(AsrA, "en", LenientGateConfig), GatedWithoutText}

InitHandWrittenOrMalformed ==
    /\ asr = AbsentFile
    /\ gated \in {OkFile(segments) : segments \in UpstreamGated}
    /\ gatedMeta = AbsentFile
    /\ gatedFrom = NoSource

\* Scope "upstream" starts from a workspace in which each upstream file is
\* absent, written by a stage, or written by hand, well formed or not; scope
\* "vad" from audio.wav and segments.vad.json absent or written by hand
InitUpstream ==
    /\ scope \in {"upstream", "vad"}
    /\ IF scope = "upstream"
       THEN /\ InitFresh \/ InitGated \/ InitHandWrittenOrMalformed
            /\ blocks \in {AbsentFile} \cup {OkFile(data) : data \in MalformedBlocks}
            /\ NoSpeech
       ELSE /\ InitFresh
            /\ blocks = AbsentFile
            /\ audio \in {AbsentFile, OkFile(<<3>>)}
            /\ vad \in {AbsentFile, OkFile(VadByHand), OkFile(VadNumberedFromTwo)}
            /\ asrMeta = AbsentFile
    /\ blocksMeta = AbsentFile
    /\ srt = AbsentFile
    /\ srtMeta = AbsentFile
    /\ hist = NoHistory
    /\ NoTranslation
    /\ NoPure
    /\ NoWorkspace

NextUpstream ==
    \/ /\ scope = "upstream"
       /\ gate_segments("en", LenientGateConfig)
    \/ /\ scope = "upstream"
       /\ \E segments \in UpstreamGated : EditGated(segments)
    \/ /\ scope = "upstream"
       /\ build_subtitle_blocks_ja(DefaultStage6Config)
    \/ /\ scope = "upstream"
       /\ normalize_subtitle_blocks_ja
    \/ /\ scope = "upstream"
       /\ write_srt_ja(<<>>)
    \/ /\ scope = "vad"
       /\ \E raw_segments \in DetectorInputs, max_segment_ms \in MaxSegmentMs :
              vad_segment(raw_segments, max_segment_ms)

SpecUpstream == InitUpstream /\ [][NextUpstream]_vars

\* The call recorded in hist' ended with a not-found error and changed no
\* artifact and no metadata file
AbortsMissing == hist'.last.out = "missing" /\ files' = files /\ speech' = speech

\* C21: a stage called while its upstream file is absent (segments.asr.json
\* for the gate, segments.gated.json for the block builder,
\* subtitle_blocks_ja.json for the normalizer and the renderer, audio.wav for
\* vad_segment without a valid cached segments.vad.json) ends with a
\* not-found error and leaves every artifact and metadata file as it was
C21_MissingUpstreamAborts ==
    [][hist' # hist
       => /\ (hist'.last.op = "gate" /\ asr = AbsentFile) => AbortsMissing
          /\ (hist'.last.op = "build" /\ gated = AbsentFile) => AbortsMissing
          /\ (hist'.last.op \in {"normalize", "write"} /\ blocks = AbsentFile)
               => AbortsMissing
          /\ (/\ hist'.last.op = "vad"
              /\ audio = AbsentFile
              /\ ~(vad.st # "absent" /\ _validate_cached_segments(vad)))
               => AbortsMissing]_vars

\* The workspace holds a block file and no gated segments, and the block
\* builder has just ended with a not-found error
C21_Witness ==
    /\ hist.last.op = "build" /\ hist.last.out = "missing"
    /\ gated = AbsentFile
    /\ blocks # AbsentFile

\* Every item of a list read from an artifact carries start_ms, end_ms and text
CarriesRequiredKeys(data) ==
    \A i \in 1..Len(data) : {"start_ms", "end_ms", "text"} \subseteq DOMAIN data[i]

\* The call recorded in hist' ended with a validation error and changed no
\* artifact and no metadata file
AbortsInvalid == hist'.last.out = "invalid" /\ files' = files /\ speech' = speech

\* C22: a stage called while its upstream artifact is present and malformed
\* (segments.gated.json for the block builder, subtitle_blocks_ja.json for
\* the normalizer and the renderer: a list with an item that lacks a
\* required key) ends with a validation error, never with a cache hit or a
\* successful return, and writes no artifact and no metadata
C22_MalformedUpstreamAborts ==
    [][hist' # hist
       => /\ (/\ hist'.last.op = "build"
              /\ Parses(gated) /\ ~CarriesRequiredKeys(gated.data))
               => AbortsInvalid
          /\ (/\ hist'.last.op \in {"normalize", "write"}
              /\ Parses(blocks) /\ ~CarriesRequiredKeys(blocks.data))
               => AbortsInvalid]_vars

\* C23: every artifact file and every sidecar has one writer stage: a step
\* that changes segments.gated.json or its sidecar is a run of the gate (or
\* an edit by hand of segments.gated.json), a step that changes
\* subtitle_blocks_ja.json or its sidecar is a run of the block builder, a
\* step that changes the .srt or its sidecar is a run of the renderer
C23_OneWriterPerArtifact ==
    [][/\ (gated' # gated \/ gatedMeta' # gatedMeta) => hist'.last.op \in {"gate", "gated"}
       /\ (blocks' # blocks \/ blocksMeta' # blocksMeta) => hist'.last.op = "build"
       /\ (srt' # srt \/ srtMeta' # srtMeta) => hist'.last.op = "write"]_vars

---------------------------------------------------------------------------
(* render_srt and parse_srt on lists of entries                            *)

\* The most entries of a list
MaxEntries == 2

\* Text lines that are not blank and hold no line feed: one ends with a
\* space, one is a number
EntryTexts == {<<"a_ja">>, <<"i_ja", " ">>, <<"1">>}

\* One or two text lines
EntryLineLists == UNION {[1..n -> EntryTexts] : n \in 1..2}

WellFormedEntries ==
    {SrtEntry(index, format_timestamp(0), format_timestamp(1500), lines) :
        index \in {1, 12}, lines \in EntryLineLists}

InitTranslate ==
    /\ scope = "translate"
    /\ subtitles \in UNION {[1..n -> WellFormedEntries] : n \in 0..MaxEntries}
    /\ rendered = NotRendered
    /\ parsed = NotParsed
    /\ asr = AbsentFile
    /\ gated = AbsentFile
    /\ gatedMeta = AbsentFile
    /\ gatedFrom = NoSource
    /\ blocks = AbsentFile
    /\ blocksMeta = AbsentFile
    /\ srt = AbsentFile
    /\ srtMeta = AbsentFile
    /\ hist = NoHistory
    /\ NoPure
    /\ NoWorkspace
    /\ NoSpeech

NextTranslate ==
    \/ scope = "translate" /\ RenderEntries
    \/ scope = "translate" /\ ParseRendered

SpecTranslate == InitTranslate /\ [][NextTranslate]_vars

\* C24: parse_srt(render_srt(entries)) = entries for every list of entries
\* with an integer index, two timestamps and one or more text lines that are
\* not blank and hold no line feed
C24_ParseRenderRoundTrip ==
    parsed.done => (parsed.ok /\ parsed.entries = subtitles)

---------------------------------------------------------------------------
(* write_srt_ja on block files with the sidecars the tests write           *)

\* tests/test_subtitles.py:81-82: one block written by hand; the texts fit a
\* line of 22 characters and not a line of 2
ConfigBlocks ==
    {<<[block_id |-> 1, start_ms |-> 0, end_ms |-> 4000, text |-> text]>> :
        text \in {<<"a_ja", "i_ja", "a_ja">>, <<"a_ja", "i_ja", "a_ja", "i_ja", "a_ja">>}}

\* tests/test_subtitles.py:84-98: the sidecar of the block builder written
\* by hand
SidecarByHand(config) ==
    [stage |-> "stage6",
     version |-> 1,
     input_fingerprint |-> "test",
     stage6_config |-> _stage6_config_payload(config)]

InitConfig ==
    /\ scope = "config"
    /\ asr = AbsentFile
    /\ gated = AbsentFile
    /\ gatedMeta = AbsentFile
    /\ gatedFrom = NoSource
    /\ blocks \in {OkFile(data) : data \in ConfigBlocks}
    /\ blocksMeta \in {AbsentFile, TornFile}
                        \cup {OkFile(SidecarByHand(config)) : config \in Stage6Configs}
    /\ srt = AbsentFile
    /\ srtMeta = AbsentFile
    /\ hist = NoHistory
    /\ NoTranslation
    /\ NoPure
    /\ NoWorkspace
    /\ NoSpeech

NextConfig ==
    \/ /\ scope = "config"
       /\ normalize_subtitle_blocks_ja
    \/ /\ scope = "config"
       /\ \E explicit \in ExplicitConfigs : write_srt_ja(explicit)

SpecConfig == InitConfig /\ [][NextConfig]_vars

\* The sidecar of the block file is readable and records a stage6_config
RecordsStage6Config ==
    /\ Exists(blocksMeta) /\ Parses(blocksMeta)
    /\ "stage6_config" \in DOMAIN blocksMeta.data

\* The .srt is the block file wrapped to chars_per_line and max_lines
WrappedWith(chars_per_line, max_lines) ==
    srt = OkFile(_render_srt(_prepare_srt_blocks(BlocksRead(blocks.data), chars_per_line,
                                                 max_lines),
                             chars_per_line, max_lines))

WrappedAsRecorded ==
    WrappedWith(blocksMeta.data.stage6_config.chars_per_line,
                blocksMeta.data.stage6_config.max_lines)

WrappedByDefault ==
    WrappedWith(DefaultStage6Config.chars_per_line, DefaultStage6Config.max_lines)

\* The last call was write_srt_ja without a config, and it wrote the .srt
WroteWithoutConfig ==
    hist.last.op = "write" /\ hist.last.conf = <<>> /\ hist.last.out = "miss"

\* C26: write_srt_ja called without a config wraps with the chars_per_line
\* and max_lines recorded under stage6_config in
\* subtitle_blocks_ja.meta.json; it wraps with the defaults only when that
\* sidecar is absent or unreadable
C26_DefaultsOnlyWithoutSidecar ==
    WroteWithoutConfig
      => IF Exists(blocksMeta) /\ Parses(blocksMeta)
         THEN RecordsStage6Config /\ WrappedAsRecorded
         ELSE WrappedByDefault

\* C26, amended: write_srt_ja called without a config wraps with the
\* chars_per_line and max_lines recorded under stage6_config in
\* subtitle_blocks_ja.meta.json; it wraps with the defaults when that sidecar
\* is absent, is unreadable, or records no stage6_config
C26_RecordedConfigElseDefaults ==
    WroteWithoutConfig
      => IF RecordsStage6Config THEN WrappedAsRecorded ELSE WrappedByDefault

\* write_srt_ja without a config has wrapped a block to the 2 characters a
\* line recorded in the sidecar, where the defaults give another text
C26_Witness ==
    /\ WroteWithoutConfig
    /\ RecordsStage6Config
    /\ blocksMeta.data.stage6_config.chars_per_line = 2
    /\ WrappedAsRecorded
    /\ ~WrappedByDefault

\* C27: every segments.gated.json that gate_segments commits satisfies the
\* Segment data model: the seg_id values are unique, start_ms >= 0,
\* end_ms > start_ms, and each segment ends no later than the next starts
C27_GatedSatisfiesDataModel ==
    (hist.last.op = "gate" /\ hist.last.out = "miss")
      => /\ \A i, j \in 1..Len(gated.data) :
                gated.data[i].seg_id = gated.data[j].seg_id => i = j
         /\ \A i \in 1..Len(gated.data) :
                /\ gated.data[i].start_ms >= 0
                /\ gated.data[i].end_ms > gated.data[i].start_ms
         /\ \A i \in 1..(Len(gated.data) - 1) :
                gated.data[i].end_ms <= gated.data[i + 1].start_ms

---------------------------------------------------------------------------
(* The normalizer on block files of any text                               *)

\* The characters of a text to normalize: a letter, an ASCII mark and the
\* full-width mark it becomes, a space and a line break
NormalizeChars == {"a_ja", ",", "ja_comma", " ", "nl"}

NormalizeTexts == UNION {[1..n -> NormalizeChars] : n \in 0..MaxTextLen}

InitNormalize ==
    /\ scope = "normalize"
    /\ asr = AbsentFile
    /\ gated = AbsentFile
    /\ gatedMeta = AbsentFile
    /\ gatedFrom = NoSource
    /\ blocks \in {OkFile(<<[block_id |-> 1, start_ms |-> 0, end_ms |-> 1000,
                             text |-> text]>>) : text \in NormalizeTexts}
    /\ blocksMeta = AbsentFile
    /\ srt = AbsentFile
    /\ srtMeta = AbsentFile
    /\ hist = NoHistory
    /\ NoTranslation
    /\ NoPure
    /\ NoWorkspace
    /\ NoSpeech

\* A run interrupted after the write of the block file leaves no sidecar or
\* a torn one, and the next run normalizes the normalized file again
NextNormalize ==
    \/ /\ scope = "normalize"
       /\ normalize_subtitle_blocks_ja
    \/ /\ scope = "normalize"
       /\ \E point \in CrashPoints : normalize_subtitle_blocks_ja_interrupted(point)

SpecNormalize == InitNormalize /\ [][NextNormalize]_vars

\* The outcomes of a run that wrote all of the block file
WroteBlocks == {"miss", "no_sidecar", "torn_sidecar"}

\* C28: normalize_japanese_text is idempotent: the text of every block that
\* normalize_subtitle_blocks_ja wrote is its own normalization, and a run
\* that normalizes a block file a run has normalized leaves its texts as
\* they are
C28_NormalizeIsIdempotent ==
    [][(hist'.last.op = "normalize" /\ hist'.last.out \in WroteBlocks)
       => /\ \A i \in 1..Len(blocks'.data) :
                 normalize_japanese_text(blocks'.data[i].text) = blocks'.data[i].text
          /\ (hist.last.op = "normalize" /\ hist.last.out \in WroteBlocks)
               => blocks' = blocks]_vars

\* A run was interrupted after it wrote the block file, and the next run
\* has normalized that file again: its text holds a full-width mark
C28_Witness ==
    /\ hist.last.op = "normalize" /\ hist.last.out = "miss"
    /\ hist.crashed
    /\ Parses(blocks)
    /\ blocks.data[1].text = <<"a_ja", "ja_comma", "a_ja">>

---------------------------------------------------------------------------
(* The splitters and the wrapper applied to one argument                   *)

\* The most constituent segments of a block handed to the boundary split
MaxBlockSegs == 4

\* The texts of constituent segments: of one to three visible characters,
\* ending in a mark, ending in a space
SegTexts ==
    {<<"a_ja">>, <<"a_ja", "ja_period">>, <<"a_ja", "a_ja", " ">>,
     <<"a_ja", "a_ja", "a_ja">>, <<"ja_comma", " ">>}

\* The blocks _merge_segments can hand over: segments of one second each,
\* one after the other
MergedBlocks ==
    {BlockOfSegments([i \in 1..Len(texts) |->
                         Segment(1000 * (i - 1), 1000 * i, texts[i])]) :
        texts \in UNION {[1..n -> SegTexts] : n \in 1..MaxBlockSegs}}

\* The longest text handed to the in-text split
MaxSplitTextLen == 5

SplitChars == {"a_ja", "ja_period", " "}

SplitTexts == UNION {[1..n -> SplitChars] : n \in 0..MaxSplitTextLen}

\* Spans of 0, 1, 2, 3 and 7 ms
SplitSpans == {<<start_ms, start_ms + duration>> :
                  start_ms \in {0, 3}, duration \in {0, 1, 2, 3, 7}}

\* Ten characters with a mark after the seventh, in 90 ms
TenCharBlock ==
    LET text == [i \in 1..10 |-> IF i = 7 THEN "ja_period" ELSE "a_ja"]
    IN  Block(0, 90, text, <<Segment(0, 90, text)>>)

\* Blocks of one constituent segment
TextBlocks ==
    {Block(span[1], span[2], text, <<Segment(span[1], span[2], text)>>) :
        span \in SplitSpans, text \in SplitTexts} \cup {TenCharBlock}

\* The longest text handed to the wrapper
MaxWrapTextLen == 8

WrapTexts == UNION {[1..n -> {"a_ja", "ja_period"}] : n \in 0..MaxWrapTextLen}

\* The arguments of wrap_japanese: lines of 2 and of 5 characters
WrapCalls == [text : WrapTexts, chars_per_line : {2, 5}, max_lines : {1, 2}]

PureScopes == {"boundary", "text", "wrap"}

InitPure ==
    /\ scope \in PureScopes
    /\ given \in CASE scope = "boundary" -> MergedBlocks
                    [] scope = "text" -> TextBlocks
                    [] scope = "wrap" -> WrapCalls
    /\ result = NotCalled
    /\ asr = AbsentFile
    /\ gated = AbsentFile
    /\ gatedMeta = AbsentFile
    /\ gatedFrom = NoSource
    /\ blocks = AbsentFile
    /\ blocksMeta = AbsentFile
    /\ srt = AbsentFile
    /\ srtMeta = AbsentFile
    /\ hist = NoHistory
    /\ NoTranslation
    /\ NoWorkspace
    /\ NoSpeech

\* The function returns value
Returns(op, value) ==
    /\ result.op = "none"
    /\ result' = [op |-> op, value |-> value]
    /\ UNCHANGED <<files, scope, gatedFrom, hist, workspace, speech, translation, given>>

CallSplitOnSegmentBoundary ==
    /\ scope = "boundary"
    /\ Returns("_split_on_segment_boundary", _split_on_segment_boundary(given))

CallChooseSplitPoint ==
    /\ scope = "text"
    /\ Returns("choose_split_point", choose_split_point(given.text))

CallSplitInsideText ==
    /\ scope = "text"
    /\ Returns("_split_inside_text", _split_inside_text(given))

CallWrapJapanese ==
    /\ scope = "wrap"
    /\ Returns("wrap_japanese",
               wrap_japanese(given.text, given.chars_per_line, given.max_lines))

NextPure ==
    \/ CallWrapJapanese
    \/ CallSplitOnSegmentBoundary
    \/ CallChooseSplitPoint
    \/ CallSplitInsideText

SpecPure == InitPure /\ [][NextPure]_vars

\* The difference of the visible characters of the two halves of block cut
\* before segment idx + 1
Imbalance(block, idx) ==
    Abs(count_jp_chars(SegmentsText(SubSeq(block.segments, 1, idx)))
          - count_jp_chars(SegmentsText(SubSeq(block.segments, idx + 1,
                                               Len(block.segments)))))

LeftEndsInPunct(block, idx) ==
    _ends_with_punct(SegmentsText(SubSeq(block.segments, 1, idx)))

\* C31: the boundary split of a block of two or more segments cuts at a
\* boundary of the least imbalance of visible characters; when a boundary of
\* that imbalance has a left half that ends in a mark, the left half of the
\* cut ends in a mark; the two halves hold the segments of the block in order.
C31_BoundaryMinimizesImbalance ==
    (result.op = "_split_on_segment_boundary" /\ Len(given.segments) >= 2)
    => /\ result.value # <<>>
       /\ result.value[1].segments \o result.value[2].segments = given.segments
       /\ LET cut == Len(result.value[1].segments)
          IN  /\ cut \in 1..(Len(given.segments) - 1)
              /\ \A other \in 1..(Len(given.segments) - 1) :
                     /\ Imbalance(given, cut) <= Imbalance(given, other)
                     /\ (Imbalance(given, other) = Imbalance(given, cut)
                           /\ LeftEndsInPunct(given, other))
                        => LeftEndsInPunct(given, cut)

\* The cut is not at the first boundary of the least imbalance: a later one
\* of that imbalance has a left half that ends in a mark; and a boundary
\* whose left half ends in a mark lost to one of a smaller imbalance
C31_Witness ==
    /\ result.op = "_split_on_segment_boundary"
    /\ Len(given.segments) = 4
    /\ LET cut == Len(result.value[1].segments)
       IN  /\ \E other \in 1..(cut - 1) :
                  /\ Imbalance(given, other) = Imbalance(given, cut)
                  /\ ~LeftEndsInPunct(given, other)
           /\ LeftEndsInPunct(given, cut)
           /\ \E other \in 1..3 :
                  /\ Imbalance(given, other) > Imbalance(given, cut)
                  /\ LeftEndsInPunct(given, other)

\* The offset the claim places the cut at: after the mark among positions
\* (positions of text, counted from 1) that is nearest the midpoint
\* Len(text) \div 2 as an index counted from 0, the earlier of two that are
\* as near; the midpoint when positions holds no mark
NearestMarkOffset(text, positions) ==
    LET midpoint == Len(text) \div 2
        marks == {pos \in positions : text[pos] \in SPLIT_PUNCT}
        Distance(pos) == Abs((pos - 1) - midpoint)
    IN  IF marks = {} THEN midpoint
        ELSE CHOOSE pos \in marks :
                 \A other \in marks :
                     \/ Distance(pos) < Distance(other)
                     \/ Distance(pos) = Distance(other) /\ pos <= other

\* The cut of a text the in-text split was applied to, <<>> when it was not
CutOffsets ==
    IF result.op = "choose_split_point" /\ Len(given.text) >= 2
    THEN {result.value}
    ELSE IF result.op = "_split_inside_text" /\ result.value # <<>>
    THEN {Len(result.value[1].text)}
    ELSE {}

HalvesRebuildText ==
    (result.op = "_split_inside_text" /\ result.value # <<>>)
    => /\ result.value[1].text # <<>>
       /\ result.value[2].text # <<>>
       /\ result.value[1].text \o result.value[2].text = given.text

\* C32 as stated: the in-text split of a text of two or more characters
\* cuts after the mark nearest the midpoint among all the marks of the text,
\* the earlier of two that are as near, and at the midpoint when the text
\* holds no mark; both halves are non-empty and rebuild the text.
C32_CutAfterNearestMark ==
    /\ \A cut \in CutOffsets :
           cut = NearestMarkOffset(given.text, 1..Len(given.text))
    /\ HalvesRebuildText

\* C32, amended: the marks are those before the last character of the
\* text, and the cut is at the midpoint when there is none of them.
C32_CutAfterNearestInnerMark ==
    /\ \A cut \in CutOffsets :
           cut = NearestMarkOffset(given.text, 1..(Len(given.text) - 1))
    /\ HalvesRebuildText

\* A text of five characters with marks one before and one after the
\* midpoint was cut after the earlier one, into halves of 2 and 3
C32_Witness ==
    /\ result.op = "_split_inside_text"
    /\ given.text = <<"a_ja", "ja_period", "a_ja", "ja_period", "a_ja">>
    /\ result.value # <<>>
    /\ Len(result.value[1].text) = 2
    /\ Len(result.value[2].text) = 3

\* start_ms + floor(duration * left_chars / total_chars), clamped into
\* [start_ms + 1, end_ms - 1]
ProportionalTime(block, left_text) ==
    LET duration == block.end_ms - block.start_ms
        floor == (duration * count_jp_chars(left_text)) \div count_jp_chars(block.text)
    IN  Max(block.start_ms + 1, Min(block.end_ms - 1, block.start_ms + floor))

\* C33: the in-text split of a block of 2 ms or more (with a text of two or
\* more characters, one of them visible) cuts the span at start_ms +
\* floor(duration * left_chars / total_chars) clamped into [start_ms + 1,
\* end_ms - 1]: the left half spans start_ms to that time, the right half
\* that time to end_ms, and both last 1 ms or more; a block of 1 ms or less
\* is not split.
C33_SplitTimeIsProportional ==
    (/\ result.op = "_split_inside_text"
     /\ Len(given.text) >= 2
     /\ count_jp_chars(given.text) > 0)
    => IF given.end_ms - given.start_ms <= 1
       THEN result.value = <<>>
       ELSE /\ result.value # <<>>
            /\ result.value[1].start_ms = given.start_ms
            /\ result.value[1].end_ms = ProportionalTime(given, result.value[1].text)
            /\ result.value[2].start_ms = result.value[1].end_ms
            /\ result.value[2].end_ms = given.end_ms
            /\ result.value[1].end_ms - result.value[1].start_ms >= 1
            /\ result.value[2].end_ms - result.value[2].start_ms >= 1

\* Where the claim breaks a text of more than chars_per_line characters:
\* after the latest mark among the last 4 characters of its first
\* chars_per_line characters, after chars_per_line characters without one
BreakAfterLatestMark(remaining, chars_per_line) ==
    LET tail == {pos \in Max(chars_per_line - 3, 1)..chars_per_line :
                    remaining[pos] \in SPLIT_PUNCT}
    IN  IF tail = {} THEN chars_per_line
        ELSE CHOOSE pos \in tail : \A other \in tail : other <= pos

\* C34: every line wrap_japanese cut off a text of more than chars_per_line
\* characters ends after the latest mark among the last 4 characters of the
\* window of chars_per_line characters, and has chars_per_line characters
\* when these hold no mark.
C34_BreakAfterLatestMarkInTail ==
    result.op = "wrap_japanese"
    => \A i \in 1..Len(result.value) :
           LET remaining == Concat(SubSeq(result.value, i, Len(result.value)))
           IN  Len(remaining) > given.chars_per_line
               => Len(result.value[i])
                    = BreakAfterLatestMark(remaining, given.chars_per_line)

\* What holds: the same of the lines up to max_lines, when chars_per_line
\* is 5 so that the window is longer than its last 4 characters
BreaksWithinMaxLinesOfFive ==
    (result.op = "wrap_japanese" /\ given.chars_per_line = 5)
    => \A i \in 1..Min(Len(result.value), given.max_lines) :
           LET remaining == Concat(SubSeq(result.value, i, Len(result.value)))
           IN  Len(remaining) > given.chars_per_line
               => Len(result.value[i])
                    = BreakAfterLatestMark(remaining, given.chars_per_line)

---------------------------------------------------------------------------
(* _enforce_block_constraints, call by call                                *)

\* The most constituent segments of a block handed to the enforcement
MaxEnforceSegs == 3

EnforceTexts ==
    {<<"a_ja">>, <<"a_ja", "a_ja", " ">>, <<"a_ja", "ja_period", "a_ja", "a_ja">>}

\* Blocks of segments of one second each, and blocks of one segment of 1 ms
\* and of 3 ms
EnforceBlocks ==
    {BlockOfSegments([i \in 1..Len(texts) |->
                         Segment(1000 * (i - 1), 1000 * i, texts[i])]) :
        texts \in UNION {[1..n -> EnforceTexts] : n \in 1..MaxEnforceSegs}}
      \cup {Block(0, end_ms, text, <<Segment(0, end_ms, text)>>) :
               end_ms \in {1, 3}, text \in EnforceTexts}

\* Limits of 2 characters and of 1 character per second for a block
EagerStage6Config ==
    [DefaultStage6Config EXCEPT !.chars_per_line = 1, !.target_chars_per_sec = 1]

\* The blocks handed to the enforcement and the limits they are held to
EnforceCalls ==
    [block : EnforceBlocks, config : {TightStage6Config, EagerStage6Config}]

InitEnforce ==
    /\ scope = "enforce"
    /\ given \in EnforceCalls
    /\ result = NotCalled
    /\ asr = AbsentFile
    /\ gated = AbsentFile
    /\ gatedMeta = AbsentFile
    /\ gatedFrom = NoSource
    /\ blocks = AbsentFile
    /\ blocksMeta = AbsentFile
    /\ srt = AbsentFile
    /\ srtMeta = AbsentFile
    /\ hist = NoHistory
    /\ NoTranslation
    /\ NoWorkspace
    /\ NoSpeech

RECURSIVE SplitClosure(_)
\* The blocks together with every half that splitting one of them makes
SplitClosure(known) ==
    LET halves == UNION {{_split_block(block)[i] : i \in DOMAIN _split_block(block)} : block \in known}
    IN  IF halves \subseteq known THEN known
        ELSE SplitClosure(known \cup halves)

\* _split_block on every block the enforcement can come to
SplitPairs == [block \in SplitClosure(EnforceBlocks) |-> _split_block(block)]

\* The recursion of _enforce_block_constraints as a stack: pending holds
\* the blocks of the calls that are still to be made, the left half before
\* the right one, and returned the blocks of the calls that returned
Enforcing(pending, returned_blocks) ==
    [op |-> "enforcing", value |-> [pending |-> pending, returned |-> returned_blocks]]

\* build_subtitle_blocks_ja calls _enforce_block_constraints on a block
EnforceCall ==
    /\ scope = "enforce"
    /\ result.op = "none"
    /\ result' = Enforcing(<<given.block>>, <<>>)
    /\ UNCHANGED <<files, scope, gatedFrom, hist, workspace, speech, translation, given>>

\* One call of _enforce_block_constraints, up to its two recursive calls
EnforceStep ==
    /\ scope = "enforce"
    /\ result.op = "enforcing"
    /\ result.value.pending # <<>>
    /\ LET block == Head(result.value.pending)
           split_pair == SplitPairs[block]
       IN  IF ~_block_needs_split(block, given.config) \/ split_pair = <<>>
           THEN result' = Enforcing(Tail(result.value.pending),
                                    Append(result.value.returned, block))
           ELSE result' = Enforcing(split_pair \o Tail(result.value.pending),
                                    result.value.returned)
    /\ UNCHANGED <<files, scope, gatedFrom, hist, workspace, speech, translation, given>>

\* The outermost call returns the blocks of value.returned
EnforceReturn ==
    /\ scope = "enforce"
    /\ result.op = "enforcing"
    /\ result.value.pending = <<>>
    /\ result' = [op |-> "_enforce_block_constraints", value |-> result.value]
    /\ UNCHANGED <<files, scope, gatedFrom, hist, workspace, speech, translation, given>>

NextEnforce ==
    \/ EnforceCall
    \/ EnforceStep
    \/ EnforceReturn

\* A call that was started runs on: the program is sequential
SpecEnforce == InitEnforce /\ [][NextEnforce]_vars /\ WF_vars(NextEnforce)

\* The stack returns what the recursive definition returns
EnforceStepsAgree ==
    result.op = "_enforce_block_constraints"
    => result.value.returned = _enforce_block_constraints(given.block, given.config)

\* A step that split the block on top of the stack
SplitStep ==
    /\ result.op = "enforcing" /\ result'.op = "enforcing"
    /\ Len(result'.value.pending) = Len(result.value.pending) + 1

\* C35: constraint enforcement terminates: every half a split makes has
\* fewer constituent segments or a shorter text than the block that was
\* split, and every call of _enforce_block_constraints returns.
C35_EnforcementTerminates ==
    /\ [][SplitStep
          => \A i \in 1..2 :
                 \/ Len(result'.value.pending[i].segments)
                      < Len(Head(result.value.pending).segments)
                 \/ Len(result'.value.pending[i].text)
                      < Len(Head(result.value.pending).text)]_vars
    /\ <>(result.op = "_enforce_block_constraints")

\* The call on a block of two or more segments returned three or more
\* blocks, one of them a part of a segment
C35_Witness ==
    /\ result.op = "_enforce_block_constraints"
    /\ Len(given.block.segments) >= 2
    /\ Len(result.value.returned) >= 3
    /\ \E i \in 1..Len(result.value.returned) :
           result.value.returned[i].end_ms - result.value.returned[i].start_ms < 1000

---------------------------------------------------------------------------
(* The text the builder and the renderer keep                              *)

\* The texts of a list of segments or of blocks, joined in the list's order
JoinedText(items) == Concat([i \in 1..Len(items) |-> items[i].text])

\* C36: for every valid gated input, the texts of the blocks
\* build_subtitle_blocks_ja writes, joined in block order, are the texts of
\* the input segments joined in time order: merging and splitting drop,
\* duplicate and reorder no character.
C36_BuildKeepsText ==
    (Parses(gated) /\ IsValidGated(gated.data) /\ Parses(blocks))
    => JoinedText(blocks.data) = JoinedText(_load_gated_segments(gated.data))

\* The builder wrote two or more blocks from two or more segments, and the
\* blocks are not the segments: merging or splitting moved the first cut
C36_Witness ==
    /\ scope = "valid"
    /\ LastRun("build", "miss")
    /\ Len(gated.data) >= 2
    /\ Len(blocks.data) >= 2
    /\ blocks.data[1].text # gated.data[1].text

\* C37: the text lines of all entries of the SRT file write_srt_ja wrote,
\* joined in entry order, are the texts of the blocks of the blocks file
\* joined in order: wrapping, the split of stage 8, the forced wrap and the
\* rendering drop no character of a block's text.
C37_SrtKeepsText ==
    (LastRun("write", "miss") /\ Parses(srt))
    => LET entries == SrtEntries(srt.data)
       IN  Concat([k \in 1..Len(entries) |-> Concat(TextLines(entries[k]))])
             = JoinedText(blocks.data)

---------------------------------------------------------------------------
(* init_workspace, step by step, in two processes                          *)

\* The call of process proc is at position pc with its locals set by more
Moved(proc, pc, more) ==
    calls' = [calls EXCEPT ![proc] = Update([@ EXCEPT !.pc = pc], more)]

\* init_workspace begins: exists(), is_file() and _fingerprint_for_path
\* (stat) of the input path
CallStat(proc, input_path) ==
    /\ calls[proc].pc = "idle"
    /\ IF video[input_path].kind = "file"
       THEN Moved(proc, "scan", [input_path |-> input_path,
                                 fingerprint |-> _fingerprint_for_path(input_path),
                                 idx |-> 0])
       ELSE Moved(proc, "raised", [input_path |-> input_path])
    /\ UNCHANGED <<files, scope, gatedFrom, hist, video, workDirs, returned, speech,
                   translation, pure>>

\* _select_work_dir: one turn of its loop, on the candidate idx: the next
\* candidate if this one exists and does not match, else this one is returned
ScanCandidate(proc) ==
    /\ calls[proc].pc = "scan"
    /\ LET idx == calls[proc].idx
       IN  IF workDirs[idx].exists
                /\ ~Reusable(idx, calls[proc].fingerprint, calls[proc].input_path)
           THEN /\ idx < MaxCalls
                /\ Moved(proc, "scan", [idx |-> idx + 1])
           ELSE Moved(proc, "mkdir", [created |-> ~workDirs[idx].exists])
    /\ UNCHANGED <<files, scope, gatedFrom, hist, video, workDirs, returned, speech,
                   translation, pure>>

\* work_dir.mkdir(parents=True, exist_ok=True)
MakeDir(proc) ==
    /\ calls[proc].pc = "mkdir"
    /\ workDirs' = [workDirs EXCEPT ![calls[proc].idx].exists = TRUE]
    /\ Moved(proc, "open", <<>>)
    /\ UNCHANGED <<files, scope, gatedFrom, hist, video, returned, speech,
                   translation, pure>>

\* json_io.py: write_json: media.json is opened for writing and is empty
OpenMedia(proc) ==
    /\ calls[proc].pc = "open"
    /\ workDirs' = [workDirs EXCEPT ![calls[proc].idx].media = TornFile]
    /\ Moved(proc, "dump", <<>>)
    /\ UNCHANGED <<files, scope, gatedFrom, hist, video, returned, speech,
                   translation, pure>>

\* What the call of a process writes to media.json
MetadataOf(call) ==
    _build_media_metadata(call.input_path, call.idx, call.fingerprint)

\* json_io.py: write_json: the metadata is dumped and the file closed
DumpMedia(proc) ==
    /\ calls[proc].pc = "dump"
    /\ workDirs' = [workDirs EXCEPT ![calls[proc].idx].media =
                                        OkFile(MetadataOf(calls[proc]))]
    /\ Moved(proc, "log", <<>>)
    /\ UNCHANGED <<files, scope, gatedFrom, hist, video, returned, speech,
                   translation, pure>>

\* The line is appended to run.log and the context returned
AppendLogAndReturn(proc) ==
    /\ calls[proc].pc = "log"
    /\ workDirs' = [workDirs EXCEPT ![calls[proc].idx].log = @ + 1]
    /\ returned' = Append(returned,
                          [input_path |-> calls[proc].input_path,
                           work_dir |-> calls[proc].idx,
                           media_metadata |-> MetadataOf(calls[proc]),
                           created |-> calls[proc].created])
    /\ Moved(proc, "done", <<>>)
    /\ UNCHANGED <<files, scope, gatedFrom, hist, video, speech, translation, pure>>

\* Two processes, no call begun, no candidate directory there
InitClaim ==
    /\ scope = "claim"
    /\ asr = AbsentFile
    /\ gated = AbsentFile
    /\ gatedMeta = AbsentFile
    /\ gatedFrom = NoSource
    /\ blocks = AbsentFile
    /\ blocksMeta = AbsentFile
    /\ srt = AbsentFile
    /\ srtMeta = AbsentFile
    /\ hist = NoHistory
    /\ NoTranslation
    /\ NoPure
    /\ NoWorkspace
    /\ NoSpeech

\* The calls step in any order; clip.mp4 may be rewritten while they run
NextClaim ==
    /\ scope = "claim"
    /\ \/ \E proc \in Procs, path \in Paths : CallStat(proc, path)
       \/ \E proc \in Procs : ScanCandidate(proc)
       \/ \E proc \in Procs : MakeDir(proc)
       \/ \E proc \in Procs : OpenMedia(proc)
       \/ \E proc \in Procs : DumpMedia(proc)
       \/ \E proc \in Procs : AppendLogAndReturn(proc)
       \/ WriteVideo("clip.mp4", [size_bytes |-> 5, mtime |-> 2])

SpecClaim == InitClaim /\ [][NextClaim]_vars

\* A step of a call writes over a media.json that holds another fingerprint
\* than the call's
OverwritesAnother ==
    \E idx \in 0..MaxCalls, proc \in Procs :
        /\ calls'[proc] # calls[proc]
        /\ Parses(workDirs[idx].media)
        /\ workDirs'[idx].media # workDirs[idx].media
        /\ workDirs[idx].media.data.fingerprint # calls[proc].fingerprint

\* C38: claiming a new workspace directory is atomic with respect to other
\* calls of init_workspace: however the steps (stat, candidate scan, mkdir,
\* write of media.json) of two calls with different fingerprints
\* interleave, the two calls never return the same work_dir, and no call
\* writes over the media.json the other call wrote.
C38_ClaimIsAtomic ==
    /\ [](\A i, j \in 1..Len(returned) :
             returned[i].media_metadata.fingerprint
               # returned[j].media_metadata.fingerprint
             => returned[i].work_dir # returned[j].work_dir)
    /\ [][~OverwritesAnother]_vars

=============================================================================
